---- MODULE Spec2Model ----
(***************************************************************************)
(* Model of the image-synthesis engine of src/image_engine.py: prompt      *)
(* analysis (detect_style, prompt_to_colors), the style generators, the    *)
(* pipeline generate_image and the alpha verifier verify_alpha.            *)
(*                                                                         *)
(* Strings are TLA+ strings; TLC evaluates Len, SubSeq and \o on them, so  *)
(* Python's `kw in p` is modelled character by character.                  *)
(***************************************************************************)
EXTENDS Integers, Sequences, FiniteSets, TLC

VARIABLES
    dprompt,    \* detect_style: the prompt argument
    dstyle,     \* detect_style(prompt), "none" before the call
    dlower,     \* detect_style(prompt.lower())
    dupper,     \* detect_style(prompt.upper())
    strhash,    \* this process's hash() of each prompt (PYTHONHASHSEED)
    raster,     \* which of the sampled rasterisation outcomes PIL produces
    arg,        \* generate_image: the config as the caller passed it
    cfg,        \* generate_image: the config object (mutated in place)
    pc,         \* generate_image: the next step of the running call
    pal,        \* generate_image: c1, c2, c3
    img,        \* generate_image: the image the generator returned
    result,     \* generate_image: the GenerationResult returned
    va,         \* generate_image: has_alpha, transparent_pct
    err,        \* generate_image: the exception that ended the call
    ref,        \* a finished invocation kept for comparison
    last,       \* the latest finished invocation
    vimg,       \* verify_alpha: the image argument
    vres,       \* verify_alpha: the pair returned
    cprompt,    \* prompt_to_colors: the prompt argument
    ccolors,    \* prompt_to_colors: the triple returned
    cargs,      \* concurrent calls: the config each caller passed
    calls,      \* concurrent calls: the frame (config object, locals) of each
    fcfg,       \* gen_flower: the config argument
    fpal,       \* gen_flower: the colours c1, c2, c3 passed in
    fimg,       \* gen_flower: what the call raised or returned
    icfg,       \* gen_isometric: the config argument
    ipc,        \* gen_isometric: the part of the scene being drawn
    iops,       \* gen_isometric: the draw operations done so far, in order
    ipx,        \* gen_isometric: a sampled pixel, before and after the shadow
    mtable,     \* memory store: the committed rows of table memory_store
    nextid,     \* memory store: how many rows were inserted so far (row ids)
    sreq,       \* memory store: the POST /store request each session is in
    actor,      \* memory store: the user whose request took the last step
    resp,       \* memory store: the outcome of the last finished request
    dcfg,       \* gen_flower, drawing: the config argument
    dpc,        \* gen_flower, drawing: the layer being drawn
    dops,       \* gen_flower, drawing: the draw operations done so far, in order
    estorage,   \* generate-image endpoint: the keys of the images in storage
    images,     \* generate-image endpoint: the image_key of each committed ImageRecord
    ereq,       \* generate-image endpoint: the request being served
    ecount      \* generate-image endpoint: how many requests were received

detectVars == <<dprompt, dstyle, dlower, dupper>>
procVars   == <<strhash, raster>>
engineVars == <<arg, cfg, pc, pal, img, va, result, err>>
repeatVars == <<ref, last>>
verifyVars == <<vimg, vres>>
colorVars  == <<cprompt, ccolors>>
concVars   == <<cargs, calls>>
flowerVars == <<fcfg, fpal, fimg>>
isoVars    == <<icfg, ipc, iops, ipx>>
storeVars  == <<mtable, nextid, sreq, actor, resp>>
drawVars   == <<dcfg, dpc, dops>>
endpointVars == <<estorage, images, ereq, ecount>>

vars == <<detectVars, procVars, engineVars, repeatVars, verifyVars, colorVars,
          concVars, flowerVars, isoVars, storeVars, drawVars, endpointVars>>

\* the variables each specification leaves alone
notDetect == <<procVars, engineVars, repeatVars, verifyVars, colorVars, concVars, flowerVars,
              isoVars, storeVars,
              drawVars,
              endpointVars>>
notEngine == <<detectVars, repeatVars, verifyVars, colorVars, concVars, flowerVars,
              isoVars, storeVars,
              drawVars,
              endpointVars>>
notRepeat == <<detectVars, engineVars, verifyVars, colorVars, concVars, flowerVars,
              isoVars, storeVars,
              drawVars,
              endpointVars>>
notVerify == <<detectVars, procVars, engineVars, repeatVars, colorVars, concVars, flowerVars,
              isoVars, storeVars,
              drawVars,
              endpointVars>>
notColors == <<detectVars, procVars, engineVars, repeatVars, verifyVars, concVars, flowerVars,
              isoVars, storeVars,
              drawVars,
              endpointVars>>
notConc   == <<detectVars, engineVars, repeatVars, verifyVars, colorVars, flowerVars,
              isoVars, storeVars,
              drawVars,
              endpointVars>>
notFlower == <<detectVars, engineVars, repeatVars, verifyVars, colorVars, concVars,
              isoVars, storeVars,
              drawVars,
              endpointVars>>
notIso    == <<detectVars, engineVars, repeatVars, verifyVars, colorVars, concVars,
              flowerVars, storeVars,
              drawVars,
              endpointVars>>
notStore  == <<detectVars, procVars, engineVars, repeatVars, verifyVars, colorVars,
              concVars, flowerVars, isoVars,
              drawVars,
              endpointVars>>
notDraw   == <<detectVars, procVars, engineVars, repeatVars, verifyVars, colorVars,
              concVars, flowerVars, isoVars, storeVars,
              endpointVars>>
notEndpoint== <<detectVars, procVars, engineVars, repeatVars, verifyVars, colorVars,
              concVars, flowerVars, isoVars, storeVars, drawVars>>

\* Optional values: None is the empty tuple and Some(x) the 1-tuple of x.
\* An absent style tag or exception name is the string "none".
None == <<>>
Some(x) == <<x>>
NoName == "none"

Min(S) == CHOOSE m \in S : \A n \in S : m <= n

Abs(n) == IF n < 0 THEN -n ELSE n

-----------------------------------------------------------------------------
(* Python str operations *)

UPPERCASE == "ABCDEFGHIJKLMNOPQRSTUVWXYZ"
LOWERCASE == "abcdefghijklmnopqrstuvwxyz"

CharAt(s, i) == SubSeq(s, i, i)

\* The strings of the model are ASCII; "$" stands for the letter U+00DF
\* (sharp s, as in "blo$om").
SHARP_S == "$"

\* str.lower() of one character.  U+00DF is a lower-case letter already.
LowerChar(c) ==
    IF \E i \in 1..Len(UPPERCASE) : CharAt(UPPERCASE, i) = c
    THEN CharAt(LOWERCASE, CHOOSE i \in 1..Len(UPPERCASE) : CharAt(UPPERCASE, i) = c)
    ELSE c

\* str.upper() of one character: the full Unicode case mapping, under which
\* U+00DF becomes the two characters "SS".
UpperChar(c) ==
    IF \E i \in 1..Len(LOWERCASE) : CharAt(LOWERCASE, i) = c
    THEN CharAt(UPPERCASE, CHOOSE i \in 1..Len(LOWERCASE) : CharAt(LOWERCASE, i) = c)
    ELSE IF c = SHARP_S THEN "SS"
    ELSE c

RECURSIVE Lower(_)
Lower(s) == IF Len(s) = 0 THEN ""
            ELSE LowerChar(CharAt(s, 1)) \o Lower(SubSeq(s, 2, Len(s)))

RECURSIVE Upper(_)
Upper(s) == IF Len(s) = 0 THEN ""
            ELSE UpperChar(CharAt(s, 1)) \o Upper(SubSeq(s, 2, Len(s)))

\* Python `kw in p`
Contains(p, kw) ==
    \E i \in 1..(Len(p) - Len(kw) + 1) : SubSeq(p, i, i + Len(kw) - 1) = kw

\* any(kw in p for kw in keywords)
AnyIn(keywords, p) == \E k \in 1..Len(keywords) : Contains(p, keywords[k])

-----------------------------------------------------------------------------
(* ImageStyle and detect_style *)

ImageStyle ==
    {"auto", "geometric", "gradient", "glow", "starburst", "badge",
     "portrait", "landscape", "text_art", "mandala", "wave", "pixel",
     "flower", "isometric"}

rules == <<
    [style |-> "flower",    keywords |-> <<"bunga","flower","petal","rose","mawar","sakura","flora","bloom","blossom","lotus","teratai","dahlia","tulip">>],
    [style |-> "isometric", keywords |-> <<"isometric","isometri","3d","cube","kubus","kota","city","building","gedung","perspektif","voxel","minecraft">>],
    [style |-> "mandala",   keywords |-> <<"mandala","pola","pattern","simetri","symmetric","spiritual">>],
    [style |-> "wave",      keywords |-> <<"gelombang","wave","cair","liquid","fluid","ombak","laut","ocean">>],
    [style |-> "glow",      keywords |-> <<"cahaya","glow","neon","bercahaya","radiant","glowing","shine">>],
    [style |-> "starburst", keywords |-> <<"bintang","star","sinar","sun","matahari","burst","ray","cahaya matahari">>],
    [style |-> "badge",     keywords |-> <<"badge","icon","logo","sticker","label","emblem","shield">>],
    [style |-> "portrait",  keywords |-> <<"wajah","face","orang","person","manusia","human","portrait","karakter">>],
    [style |-> "landscape", keywords |-> <<"pemandangan","landscape","alam","nature","gunung","mountain">>],
    [style |-> "text_art",  keywords |-> <<"teks","text","tulisan","kata","word","huruf","typography","font">>],
    [style |-> "gradient",  keywords |-> <<"gradien","gradient","warna","colorful","pelangi","rainbow","abstract">>],
    [style |-> "pixel",     keywords |-> <<"pixel","piksel","retro","8bit","game","sprite">>],
    [style |-> "geometric", keywords |-> <<"geometri","geometric","bentuk","shape","sudut","angular","abstract">>]
>>

\* detect_style with the scan running from the last rule to the first.
DetectStyleLastMatch(prompt) ==
    LET p == Lower(prompt)
        hits == {i \in 1..Len(rules) : AnyIn(rules[i].keywords, p)}
    IN  IF hits = {} THEN "geometric" ELSE rules[-Min({-i : i \in hits})].style

\* detect_style matching the keywords against the prompt as typed.
DetectStyleCaseSensitive(prompt) ==
    LET hits == {i \in 1..Len(rules) : AnyIn(rules[i].keywords, prompt)}
    IN  IF hits = {} THEN "geometric" ELSE rules[Min(hits)].style

DetectStyle(prompt) ==
    LET p == Lower(prompt)
        hits == {i \in 1..Len(rules) : AnyIn(rules[i].keywords, p)}
    IN  IF hits = {} THEN "geometric" ELSE rules[Min(hits)].style

-----------------------------------------------------------------------------
(* detect_style as a pure function: prompts are built from a vocabulary *)

MaxWords == 2

Vocabulary ==
    {"flower", "city", "abstract", "Rose", "gray", "sunflower", "LOGO",
     "blo$om", "x", "pattern", "Wave", "neon", "face", "mountain", "text",
     "pixel", "shape"}

RECURSIVE PromptsOf(_)
PromptsOf(n) ==
    IF n = 1 THEN Vocabulary
    ELSE LET shorter == PromptsOf(n - 1)
         IN  shorter \cup {p \o " " \o w : p \in shorter, w \in Vocabulary}

DetectPrompts == PromptsOf(MaxWords)

DetectInit ==
    /\ dprompt \in DetectPrompts
    /\ dstyle = NoName
    /\ dlower = NoName
    /\ dupper = NoName

\* style = detect_style(prompt)
CallDetect ==
    /\ dstyle = NoName
    /\ dstyle' = DetectStyle(dprompt)
    /\ UNCHANGED <<dprompt, dlower, dupper, notDetect>>

\* detect_style(prompt.lower())
CallDetectLower ==
    /\ dlower = NoName
    /\ dlower' = DetectStyle(Lower(dprompt))
    /\ UNCHANGED <<dprompt, dstyle, dupper, notDetect>>

\* detect_style(prompt.upper())
CallDetectUpper ==
    /\ dupper = NoName
    /\ dupper' = DetectStyle(Upper(dprompt))
    /\ UNCHANGED <<dprompt, dstyle, dlower, notDetect>>

NextDetect == CallDetect \/ CallDetectLower \/ CallDetectUpper

-----------------------------------------------------------------------------
(* prompt_to_colors *)

palettes == <<
    [keywords |-> <<"merah","red","api","fire","marah","cinta","love">>,
     colors |-> <<<<220,50,70>>, <<255,120,80>>, <<180,20,40>>>>],
    [keywords |-> <<"biru","blue","laut","ocean","langit","sky","air">>,
     colors |-> <<<<30,100,220>>, <<80,180,255>>, <<10,60,160>>>>],
    [keywords |-> <<"hijau","green","alam","nature","hutan","forest">>,
     colors |-> <<<<40,180,80>>, <<100,220,120>>, <<20,120,50>>>>],
    [keywords |-> <<"kuning","yellow","matahari","sun","emas","gold">>,
     colors |-> <<<<255,200,30>>, <<255,240,100>>, <<200,140,0>>>>],
    [keywords |-> <<"ungu","purple","violet","mistis","mystic","magic">>,
     colors |-> <<<<140,50,200>>, <<200,100,255>>, <<80,20,140>>>>],
    [keywords |-> <<"orange","jingga","senja","sunset","autumn">>,
     colors |-> <<<<255,120,30>>, <<255,180,80>>, <<200,70,10>>>>],
    [keywords |-> <<"pink","merah muda","bunga","flower","sakura">>,
     colors |-> <<<<255,100,160>>, <<255,180,210>>, <<200,50,120>>>>],
    [keywords |-> <<"putih","white","bersih","clean","salju","snow">>,
     colors |-> <<<<220,230,240>>, <<255,255,255>>, <<180,190,210>>>>],
    [keywords |-> <<"hitam","black","gelap","dark","malam","night">>,
     colors |-> <<<<30,30,50>>, <<80,80,120>>, <<10,10,20>>>>],
    [keywords |-> <<"cyan","tosca","turquoise">>,
     colors |-> <<<<0,180,200>>, <<80,220,230>>, <<0,120,140>>>>]
>>

\* int(hashlib.md5(prompt.encode()).hexdigest()[:6], 16): MD5 is a fixed
\* function of the bytes of the prompt; its values for the prompts of the
\* model that reach the fallback are tabulated.
Md5Head(prompt) ==
    CASE prompt = "   "               -> 6456881
      [] prompt = "Neon City"         -> 1765281
      [] prompt = "zebra"             -> 6931545
      [] prompt = "x"                 -> 10343652
      [] prompt = "zebra zebra"       -> 2715339
      [] prompt = "zebra x"           -> 2667942
      [] prompt = "x zebra"           -> 13282601
      [] prompt = "x x"               -> 13460009
      [] prompt = "zebra zebra zebra" -> 1391133
      [] prompt = "zebra zebra x"     -> 4448118
      [] prompt = "zebra x zebra"     -> 8888813
      [] prompt = "zebra x x"         -> 1196552
      [] prompt = "x zebra zebra"     -> 9009511
      [] prompt = "x zebra x"         -> 9701824
      [] prompt = "x x zebra"         -> 9561047
      [] prompt = "x x x"             -> 5201160

\* [int(x*255) for x in colorsys.hsv_to_rgb(k/360, S/10, V/10)], in exact
\* rational arithmetic (the float product can truncate one lower where the
\* exact value is an integer).
HsvToRgb255(k, S, V) ==
    LET i  == (k \div 60) % 6
        fm == k % 60
        v  == (255 * V) \div 10
        p  == (255 * V * (10 - S)) \div 100
        q  == (255 * V * (600 - S * fm)) \div 6000
        t  == (255 * V * (600 - S * (60 - fm))) \div 6000
    IN  CASE i = 0 -> <<v, t, p>>
          [] i = 1 -> <<q, v, p>>
          [] i = 2 -> <<p, v, t>>
          [] i = 3 -> <<p, q, v>>
          [] i = 4 -> <<t, p, v>>
          [] i = 5 -> <<v, p, q>>

\* prompt_to_colors returning the entry of the last keyword list that matches
PromptToColorsLastMatch(prompt) ==
    LET p    == Lower(prompt)
        hits == {i \in 1..Len(palettes) : AnyIn(palettes[i].keywords, p)}
        last_hit == CHOOSE m \in hits : \A n \in hits : n <= m
        k    == Md5Head(prompt) % 360
    IN  IF hits # {} THEN palettes[last_hit].colors
        ELSE <<HsvToRgb255(k, 7, 9),
               HsvToRgb255((k + 108) % 360, 6, 10),
               HsvToRgb255((k + 216) % 360, 8, 7)>>

\* prompt_to_colors with the secondary and tertiary hues a third and two
\* thirds of a turn from the base hue
PromptToColorsThirds(prompt) ==
    LET p    == Lower(prompt)
        hits == {i \in 1..Len(palettes) : AnyIn(palettes[i].keywords, p)}
        k    == Md5Head(prompt) % 360
    IN  IF hits # {} THEN palettes[Min(hits)].colors
        ELSE <<HsvToRgb255(k, 7, 9),
               HsvToRgb255((k + 120) % 360, 6, 10),
               HsvToRgb255((k + 240) % 360, 8, 7)>>

\* prompt_to_colors taking the fallback hue from the built-in hash() of the
\* running process instead of MD5
PromptToColorsProcessHash(prompt) ==
    LET p    == Lower(prompt)
        hits == {i \in 1..Len(palettes) : AnyIn(palettes[i].keywords, p)}
        k    == strhash[prompt] % 360
    IN  IF hits # {} THEN palettes[Min(hits)].colors
        ELSE <<HsvToRgb255(k, 7, 9),
               HsvToRgb255((k + 108) % 360, 6, 10),
               HsvToRgb255((k + 216) % 360, 8, 7)>>

PromptToColors(prompt) ==
    LET p    == Lower(prompt)
        hits == {i \in 1..Len(palettes) : AnyIn(palettes[i].keywords, p)}
        k    == Md5Head(prompt) % 360
    IN  IF hits # {} THEN palettes[Min(hits)].colors
        ELSE <<HsvToRgb255(k, 7, 9),
               HsvToRgb255((k + 108) % 360, 6, 10),
               HsvToRgb255((k + 216) % 360, 8, 7)>>

\* Words of the prompts prompt_to_colors is called with: keywords of several
\* palette entries, words that contain a keyword ("fair" holds "air",
\* "sunset" holds "sun"), and words that match nothing.
ColorVocabulary ==
    {"red", "fire", "Blue", "fair", "sunset", "flower", "MAGIC", "night",
     "cyan", "zebra", "x"}

RECURSIVE ColorPromptsOf(_)
ColorPromptsOf(n) ==
    IF n = 1 THEN ColorVocabulary
    ELSE LET shorter == ColorPromptsOf(n - 1)
         IN  shorter \cup {p \o " " \o w : p \in shorter, w \in ColorVocabulary}

ColorPrompts == ColorPromptsOf(MaxWords)

ColorsInit ==
    /\ cprompt \in ColorPrompts
    /\ ccolors = None

\* colors = prompt_to_colors(prompt)
CallColors ==
    /\ ccolors = None
    /\ ccolors' = Some(PromptToColors(cprompt))
    /\ UNCHANGED <<cprompt, notColors>>

NextColors == CallColors

-----------------------------------------------------------------------------
(* Images.  An image is its mode, its size, the number of its pixels whose  *)
(* alpha is 0 and the number whose alpha is not (alpha0 + alphaPos =        *)
(* width * height), and px, the term that determines the pixel values: the  *)
(* generator and every input it reads (colours, PRNG seed, text drawn or    *)
(* matched, shape parameters).  Pixel arrays of equal terms are equal.      *)

Image(g, W, H, zeros, reads) ==
    [mode |-> "RGBA", width |-> W, height |-> H,
     alpha0 |-> zeros, alphaPos |-> W * H - zeros,
     px |-> reads @@ [gen |-> g, width |-> W, height |-> H, shape |-> None]]

\* The generators that draw shapes into new_canvas leave part of the
\* canvas at its initial alpha 0.  How many pixels depends on rasterisation
\* that is not computed here; it is one of these samples, picked by `raster`
\* once for the whole behaviour, so rendering stays a function of px.
Rasters == {1, 2}

Untouched(r, W, H) == IF r = 1 THEN 1 ELSE (W * H) \div 4

\* verify_alpha with has_t taken from the rounded percentage.
VerifyAlphaFromPct(image) ==
    LET size == image.alpha0 + image.alphaPos
        d1 == (100 * image.alpha0) \div size
        r1 == (100 * image.alpha0) % size
        d2 == (100 * r1) \div size
        r2 == (100 * r1) % size
        up == IF 2 * r2 > size \/ (2 * r2 = size /\ d2 % 2 = 1) THEN 1 ELSE 0
    IN  [has_t |-> 100 * d1 + d2 + up > 0, pct |-> 100 * d1 + d2 + up]

\* verify_alpha counting the pixels that are not transparent.
VerifyAlphaOpaque(image) ==
    LET size == image.alpha0 + image.alphaPos
        d1 == (100 * image.alphaPos) \div size
        r1 == (100 * image.alphaPos) % size
        d2 == (100 * r1) \div size
        r2 == (100 * r1) % size
        up == IF 2 * r2 > size \/ (2 * r2 = size /\ d2 % 2 = 1) THEN 1 ELSE 0
    IN  [has_t |-> image.alphaPos > 0, pct |-> 100 * d1 + d2 + up]

\* verify_alpha.  pct is in hundredths of a percent (round(..., 2));
\* 10000 * alpha0 / size is divided in two steps of 100 to stay within 32
\* bits, and an exact half rounds to even.
VerifyAlpha(image) ==
    LET size == image.alpha0 + image.alphaPos
        d1 == (100 * image.alpha0) \div size
        r1 == (100 * image.alpha0) % size
        d2 == (100 * r1) \div size
        r2 == (100 * r1) % size
        up == IF 2 * r2 > size \/ (2 * r2 = size /\ d2 % 2 = 1) THEN 1 ELSE 0
    IN  [has_t |-> image.alpha0 > 0, pct |-> 100 * d1 + d2 + up]

-----------------------------------------------------------------------------
(* Style generators.  Each returns [raise, image]: the exception it raises  *)
(* or the image it returns.  h is the process's hash() table and r the      *)
(* rasterisation sample.                                                    *)

Returns(image) == [raise |-> NoName, image |-> Some(image)]
Raises(e)      == [raise |-> e, image |-> None]

\* str.split(): the maximal runs of non-blank characters
RECURSIVE SplitFrom(_, _, _)
SplitFrom(s, word, acc) ==
    IF Len(s) = 0 THEN (IF word = "" THEN acc ELSE Append(acc, word))
    ELSE IF CharAt(s, 1) = " "
         THEN SplitFrom(SubSeq(s, 2, Len(s)), "",
                        IF word = "" THEN acc ELSE Append(acc, word))
         ELSE SplitFrom(SubSeq(s, 2, Len(s)), word \o CharAt(s, 1), acc)

Split(s) == SplitFrom(s, "", <<>>)

\* " ".join(words)
RECURSIVE Join(_)
Join(words) ==
    IF Len(words) = 0 THEN ""
    ELSE IF Len(words) = 1 THEN words[1]
    ELSE words[1] \o " " \o Join(Tail(words))

HashModulus == 99999

\* cfg.seed or hash(cfg.prompt) % 99999: Python's `or` takes the right
\* operand when the left one is None or 0.
RngSeed(c, h) ==
    IF c.seed # None /\ c.seed[1] # 0 THEN c.seed[1] ELSE h[c.prompt] % HashModulus

\* np.random.default_rng(seed) raises ValueError for a negative seed.
DefaultRngAccepts(seed) == seed >= 0

\* floor of the square root
ISqrt(n) == CHOOSE s \in 0..n : s * s <= n /\ (s + 1) * (s + 1) > n

\* gen_gradient: the alpha written at (x, y),
\* int(255 * max(0, 1 - (dx**2 + dy**2)**0.5 * 0.6)), in thousandths.
GradientAlpha(x, y, W, H) ==
    LET dx == (Abs(2 * x - W) * 1000) \div W
        dy == (Abs(2 * y - H) * 1000) \div H
        d  == ISqrt(dx * dx + dy * dy)
        f  == 1000 - (d * 6) \div 10
    IN  (255 * (IF f > 0 THEN f ELSE 0)) \div 1000

\* gen_wave: the least alpha written, at val = 0 and y = 0:
\* int(255 * (0.4 + 0.6*val) * max(0, 1 - abs(y/H - 0.5)*1.5))
WaveMinAlpha == (255 * 4 * 25) \div 1000

\* gen_landscape: the alpha of sky row y, int(220 * (1 - t*0.3)), t = y/(H//2)
SkyAlpha(y, H) == (220 * (10 * (H \div 2) - 3 * y)) \div (10 * (H \div 2))

gen_geometric(c, p, h, r) ==
    IF ~DefaultRngAccepts(RngSeed(c, h)) THEN Raises("ValueError")
    ELSE Returns(Image("gen_geometric", c.width, c.height,
                       Untouched(r, c.width, c.height),
                       [pal |-> p, rng |-> Some(RngSeed(c, h)), text |-> None]))

\* dx and dy are largest at pixel (0, 0) and the glow overlay only adds
\* alpha, so the corner holds the least alpha of the image.
gen_gradient(c, p, h, r) ==
    Returns(Image("gen_gradient", c.width, c.height,
                  IF GradientAlpha(0, 0, c.width, c.height) > 0 THEN 0
                  ELSE Untouched(r, c.width, c.height),
                  [pal |-> p, rng |-> None, text |-> None]))

gen_glow(c, p, h, r) ==
    IF ~DefaultRngAccepts(RngSeed(c, h)) THEN Raises("ValueError")
    ELSE Returns(Image("gen_glow", c.width, c.height,
                       Untouched(r, c.width, c.height),
                       [pal |-> p, rng |-> Some(RngSeed(c, h)), text |-> None]))

gen_starburst(c, p, h, r) ==
    Returns(Image("gen_starburst", c.width, c.height,
                  Untouched(r, c.width, c.height),
                  [pal |-> <<p[1], p[2]>>, rng |-> None, text |-> None]))

\* gen_badge opening a Generator on the seed as the noisy styles do
gen_badge_seeded(c, p, h, r) ==
    IF ~DefaultRngAccepts(RngSeed(c, h)) THEN Raises("ValueError")
    ELSE LET words == Split(c.prompt)
             label == Upper(Join(SubSeq(words, 1, IF Len(words) < 3 THEN Len(words) ELSE 3)))
         IN  Returns(Image("gen_badge", c.width, c.height,
                           Untouched(r, c.width, c.height),
                           [pal |-> <<p[1], p[2]>>, rng |-> Some(RngSeed(c, h)),
                            text |-> <<label>>]))

\* label = " ".join(cfg.prompt.split()[:3]).upper()
gen_badge(c, p, h, r) ==
    LET words == Split(c.prompt)
        label == Upper(Join(SubSeq(words, 1, IF Len(words) < 3 THEN Len(words) ELSE 3)))
    IN  Returns(Image("gen_badge", c.width, c.height,
                      Untouched(r, c.width, c.height),
                      [pal |-> <<p[1], p[2]>>, rng |-> None, text |-> <<label>>]))

gen_mandala(c, p, h, r) ==
    IF ~DefaultRngAccepts(RngSeed(c, h)) THEN Raises("ValueError")
    ELSE Returns(Image("gen_mandala", c.width, c.height,
                       Untouched(r, c.width, c.height),
                       [pal |-> p, rng |-> Some(RngSeed(c, h)), text |-> None]))

\* every pixel is written with alpha >= WaveMinAlpha before the blur
gen_wave(c, p, h, r) ==
    IF ~DefaultRngAccepts(RngSeed(c, h)) THEN Raises("ValueError")
    ELSE Returns(Image("gen_wave", c.width, c.height,
                       IF WaveMinAlpha > 0 THEN 0
                       ELSE Untouched(r, c.width, c.height),
                       [pal |-> <<p[1], p[2]>>, rng |-> Some(RngSeed(c, h)), text |-> None]))

gen_portrait(c, p, h, r) ==
    Returns(Image("gen_portrait", c.width, c.height,
                  Untouched(r, c.width, c.height),
                  [pal |-> <<p[1], p[2]>>, rng |-> None, text |-> None]))

\* the sky lines fill rows 0 .. H//2 - 1 and the ground rectangle fills
\* rows H//2 .. H - 1 with alpha 180; the last sky row is the faintest
gen_landscape(c, p, h, r) ==
    IF ~DefaultRngAccepts(RngSeed(c, h)) THEN Raises("ValueError")
    ELSE Returns(Image("gen_landscape", c.width, c.height,
                       IF SkyAlpha(c.height \div 2 - 1, c.height) > 0 THEN 0
                       ELSE Untouched(r, c.width, c.height),
                       [pal |-> p, rng |-> Some(RngSeed(c, h)), text |-> None]))

\* main_text = words[0].upper() if words else "AI"; sub = the other words
gen_text_art(c, p, h, r) ==
    LET words == Split(c.prompt)
        main  == IF Len(words) > 0 THEN Upper(words[1]) ELSE "AI"
        sub   == IF Len(words) > 1 THEN <<Upper(Join(Tail(words)))>> ELSE <<>>
    IN  Returns(Image("gen_text_art", c.width, c.height,
                      Untouched(r, c.width, c.height),
                      [pal |-> <<p[1], p[2]>>, rng |-> None, text |-> <<main>> \o sub]))

gen_pixel(c, p, h, r) ==
    IF ~DefaultRngAccepts(RngSeed(c, h)) THEN Raises("ValueError")
    ELSE Returns(Image("gen_pixel", c.width, c.height,
                       Untouched(r, c.width, c.height),
                       [pal |-> p, rng |-> Some(RngSeed(c, h)), text |-> None]))

species == <<
    [name |-> "rose",      keywords |-> <<"mawar", "rose", "red">>,
     shape |-> <<5, 4, 45>>,
     colors |-> <<<<200,30,50>>, <<240,80,100>>, <<255,160,140>>>>],
    [name |-> "sakura",    keywords |-> <<"sakura", "cherry", "pink">>,
     shape |-> <<5, 3, 38>>,
     colors |-> <<<<255,160,180>>, <<255,200,210>>, <<255,230,235>>>>],
    [name |-> "lotus",     keywords |-> <<"lotus", "teratai">>,
     shape |-> <<8, 4, 42>>,
     colors |-> <<<<220,100,160>>, <<240,150,190>>, <<255,220,230>>>>],
    [name |-> "sunflower", keywords |-> <<"matahari", "sunflower", "yellow">>,
     shape |-> <<13, 2, 50>>,
     colors |-> <<<<255,200,20>>, <<255,220,60>>, <<200,130,20>>>>],
    [name |-> "dahlia",    keywords |-> <<"dahlia">>,
     shape |-> <<12, 5, 35>>,
     colors |-> <<<<180,40,120>>, <<220,80,160>>, <<255,140,200>>>>],
    [name |-> "tulip",     keywords |-> <<"tulip">>,
     shape |-> <<6, 2, 50>>,
     colors |-> <<<<200,50,80>>, <<240,100,120>>, <<255,200,180>>>>]
>>

\* The k-th value a Generator seeded with `seed` draws from
\* rng.integers(lo, hi): an integer in lo .. hi-1 fixed by seed and k.  The
\* PCG64 stream itself is not computed; this function stands for it.
RngIntegers(seed, k, lo, hi) == lo + ((seed \div k) % (hi - lo))

\* gen_flower with the species entries fixing the shape only, the colours
\* passed in being kept
gen_flower_keep_colors(c, p, h, r) ==
    IF ~DefaultRngAccepts(RngSeed(c, h)) THEN Raises("ValueError")
    ELSE LET lp   == Lower(c.prompt)
             hits == {i \in 1..Len(species) : AnyIn(species[i].keywords, lp)}
             sd   == RngSeed(c, h)
             reads == IF hits # {}
                      THEN [pal |-> p,
                            shape |-> species[Min(hits)].shape,
                            text |-> <<species[Min(hits)].name>>]
                      ELSE [pal |-> p,
                            shape |-> <<RngIntegers(sd, 1, 5, 9),
                                        RngIntegers(sd, 2, 3, 5),
                                        RngIntegers(sd, 3, 38, 50)>>,
                            text |-> <<"generic">>]
         IN  Returns(Image("gen_flower", c.width, c.height,
                           Untouched(r, c.width, c.height),
                           reads @@ [rng |-> Some(RngSeed(c, h))]))

\* shape is <<petals, layers, 100 * petal_ratio>>; the generic flower draws
\* the three from the PRNG (rng.integers(5, 9), rng.integers(3, 5),
\* rng.uniform(0.38, 0.50), the last one taken in hundredths) and keeps the
\* palette passed in.
gen_flower(c, p, h, r) ==
    IF ~DefaultRngAccepts(RngSeed(c, h)) THEN Raises("ValueError")
    ELSE LET lp   == Lower(c.prompt)
             hits == {i \in 1..Len(species) : AnyIn(species[i].keywords, lp)}
             sd   == RngSeed(c, h)
             reads == IF hits # {}
                      THEN [pal |-> species[Min(hits)].colors,
                            shape |-> species[Min(hits)].shape,
                            text |-> <<species[Min(hits)].name>>]
                      ELSE [pal |-> p,
                            shape |-> <<RngIntegers(sd, 1, 5, 9),
                                        RngIntegers(sd, 2, 3, 5),
                                        RngIntegers(sd, 3, 38, 50)>>,
                            text |-> <<"generic">>]
         IN  Returns(Image("gen_flower", c.width, c.height,
                           Untouched(r, c.width, c.height),
                           reads @@ [rng |-> Some(RngSeed(c, h))]))

\* the scene gen_isometric assembles for the lower-cased prompt lp
IsoScene(lp) ==
    LET is_flower  == AnyIn(<<"bunga", "flower", "taman", "garden", "flora">>, lp)
        is_city    == AnyIn(<<"kota", "city", "building", "gedung", "urban">>, lp)
        is_fantasy == AnyIn(<<"fantasy", "magic", "castle", "istana", "kristal">>, lp)
    IN  IF is_flower \/ (~is_city /\ ~is_fantasy) THEN "flower_garden"
        ELSE IF is_city THEN "city"
        ELSE "fantasy"

gen_isometric(c, p, h, r) ==
    IF ~DefaultRngAccepts(RngSeed(c, h)) THEN Raises("ValueError")
    ELSE Returns(Image("gen_isometric", c.width, c.height,
                       Untouched(r, c.width, c.height),
                       [pal |-> p, rng |-> Some(RngSeed(c, h)),
                        text |-> <<IsoScene(Lower(c.prompt))>>]))

\* A draw operation of gen_isometric: the kind of object and the grid
\* position the code gives it, in hundredths of a grid unit (cx, cy of
\* draw_cube; for a building and its roof, whose cube is shifted by widths
\* drawn from the PRNG, bx and by; for a leaf, placed by the PRNG, the loop
\* index).
Op(kind, x, y) == [kind |-> kind, x |-> x, y |-> y]

platform_w == 6

\* the ground loop with the test dist <= platform_w // 2
GroundTilesNarrow ==
    LET side == 2 * (platform_w \div 2) + 1
        cell(n) == Op("tile", 100 * (((n - 1) \div side) - (platform_w \div 2)),
                              100 * (((n - 1) % side) - (platform_w \div 2)))
        near(t) == Abs(t.x) + Abs(t.y) <= 100 * (platform_w \div 2)
    IN  SelectSeq([n \in 1..(side * side) |-> cell(n)], near)

\* for gx in range(-3, 4): for gy in range(-3, 4):
\*     if abs(gx) + abs(gy) <= platform_w // 2 + 1: draw_platform(gx, gy, ...)
GroundTiles ==
    LET side == 2 * (platform_w \div 2) + 1
        cell(n) == Op("tile", 100 * (((n - 1) \div side) - (platform_w \div 2)),
                              100 * (((n - 1) % side) - (platform_w \div 2)))
        near(t) == Abs(t.x) + Abs(t.y) <= 100 * ((platform_w \div 2) + 1)
    IN  SelectSeq([n \in 1..(side * side) |-> cell(n)], near)

stem_positions ==
    <<<<0, 0>>, <<-150, -100>>, <<150, -100>>, <<-100, 120>>, <<100, 120>>,
      <<-250, 50>>, <<250, 50>>>>

\* one flower: the stem, four petal cubes around the head, the centre
StemOps(pos) ==
    <<Op("stem", pos[1] - 10, pos[2] - 10),
      Op("petal", pos[1] - 25 - 15, pos[2] - 15),
      Op("petal", pos[1] + 25 - 15, pos[2] - 15),
      Op("petal", pos[1] - 15, pos[2] - 25 - 15),
      Op("petal", pos[1] - 15, pos[2] + 25 - 15),
      Op("center", pos[1] - 15, pos[2] - 15)>>

RECURSIVE Flatten(_)
Flatten(seqs) == IF Len(seqs) = 0 THEN <<>> ELSE Head(seqs) \o Flatten(Tail(seqs))

FlowerGardenOps ==
    Flatten([i \in 1..Len(stem_positions) |-> StemOps(stem_positions[i])])
        \o [i \in 1..8 |-> Op("leaf", i - 1, 0)]

building_configs ==
    <<<<0, 0>>, <<-200, -100>>, <<200, -100>>, <<-100, 150>>, <<100, 150>>,
      <<-300, 50>>, <<300, 50>>>>

CityOps ==
    Flatten([i \in 1..Len(building_configs) |->
                <<Op("building", building_configs[i][1], building_configs[i][2]),
                  Op("roof", building_configs[i][1], building_configs[i][2])>>])

\* tower, four roof tiers of side 1 - lvl * 0.22, two walls along y and two
\* along x, four crystals at radius 1.8
FantasyOps ==
    <<Op("tower", -50, -50)>>
        \o [lvl \in 1..4 |-> Op("tier", -50 + 11 * (lvl - 1), -50 + 11 * (lvl - 1))]
        \o <<Op("wall", -220, -200), Op("wall", 180, -200),
             Op("wall", -250, -220), Op("wall", -250, 180)>>
        \o <<Op("crystal", 160, -20), Op("crystal", -20, 160),
             Op("crystal", -200, -20), Op("crystal", -20, -200)>>

SceneOps(scene) ==
    CASE scene = "flower_garden" -> FlowerGardenOps
      [] scene = "city"          -> CityOps
      [] scene = "fantasy"       -> FantasyOps

-----------------------------------------------------------------------------
(* generate_image *)

\* the map without the entries of the flower and isometric generators
STYLE_MAP_Partial ==
    [s \in ImageStyle \ {"auto", "flower", "isometric"} |-> "gen_" \o s]

STYLE_MAP ==
    [s \in ImageStyle \ {"auto"} |->
        CASE s = "geometric" -> "gen_geometric"
          [] s = "gradient"  -> "gen_gradient"
          [] s = "glow"      -> "gen_glow"
          [] s = "starburst" -> "gen_starburst"
          [] s = "badge"     -> "gen_badge"
          [] s = "mandala"   -> "gen_mandala"
          [] s = "wave"      -> "gen_wave"
          [] s = "portrait"  -> "gen_portrait"
          [] s = "landscape" -> "gen_landscape"
          [] s = "text_art"  -> "gen_text_art"
          [] s = "pixel"     -> "gen_pixel"
          [] s = "flower"    -> "gen_flower"
          [] s = "isometric" -> "gen_isometric"]

\* gen_fn(cfg, c1, c2, c3)
CallGenerator(gen_fn, c, p, h, r) ==
    CASE gen_fn = "gen_geometric" -> gen_geometric(c, p, h, r)
      [] gen_fn = "gen_gradient"  -> gen_gradient(c, p, h, r)
      [] gen_fn = "gen_glow"      -> gen_glow(c, p, h, r)
      [] gen_fn = "gen_starburst" -> gen_starburst(c, p, h, r)
      [] gen_fn = "gen_badge"     -> gen_badge(c, p, h, r)
      [] gen_fn = "gen_mandala"   -> gen_mandala(c, p, h, r)
      [] gen_fn = "gen_wave"      -> gen_wave(c, p, h, r)
      [] gen_fn = "gen_portrait"  -> gen_portrait(c, p, h, r)
      [] gen_fn = "gen_landscape" -> gen_landscape(c, p, h, r)
      [] gen_fn = "gen_text_art"  -> gen_text_art(c, p, h, r)
      [] gen_fn = "gen_pixel"     -> gen_pixel(c, p, h, r)
      [] gen_fn = "gen_flower"    -> gen_flower(c, p, h, r)
      [] gen_fn = "gen_isometric" -> gen_isometric(c, p, h, r)

MinSize == 256
MaxSize == 1024

Smaller(a, b) == IF a < b THEN a ELSE b
Larger(a, b)  == IF a > b THEN a ELSE b

\* min(cfg.width, 1024) without the lower limit
ClampNoFloor(n) == Smaller(n, MaxSize)

\* max(256, min(n, 1024))
Clamp(n) == Larger(MinSize, Smaller(n, MaxSize))

\* cfg.width = ...; cfg.height = ...
ClampConfig(c) == [c EXCEPT !.width = Clamp(c.width), !.height = Clamp(c.height)]

\* generate_image without the detection step
ResolveStyleKeepAuto(c) == c

\* if cfg.style == ImageStyle.AUTO: cfg.style = detect_style(cfg.prompt)
ResolveStyle(c) ==
    IF c.style = "auto" THEN [c EXCEPT !.style = DetectStyle(c.prompt)] ELSE c

\* The style field is annotated ImageStyle but a dataclass does not check
\* it.  A tag that is not a key of STYLE_MAP is either a plain str, which
\* has no attribute `value`, or a member of some other Enum, whose `value`
\* is its own tag.
PlainStrTags    == {"watercolor"}
ForeignEnumTags == {"sketch"}
StyleTags       == ImageStyle \cup PlainStrTags \cup ForeignEnumTags

\* whether cfg.style.value exists
HasValue(style) == style \notin PlainStrTags

\* STYLE_MAP.get(cfg.style, gen_geometric)
LookupGenerator(style) ==
    IF style \in DOMAIN STYLE_MAP THEN STYLE_MAP[style] ELSE "gen_geometric"

\* GenerationResult(image=img, style_used=cfg.style.value, ...)
MakeResult(c, image) ==
    [image |-> image, style_used |-> c.style,
     alpha_verified |-> VerifyAlpha(image).has_t,
     transparent_pct |-> VerifyAlpha(image).pct]

\* One whole call: the mutated config, and the exception or the result.
GenerateImage(c0, h, r) ==
    LET c == ResolveStyle(ClampConfig(c0))
        p == PromptToColors(c.prompt)
        g == CallGenerator(LookupGenerator(c.style), c, p, h, r)
    IN  IF g.raise # NoName
        THEN [cfg |-> c, raise |-> g.raise, result |-> None]
        ELSE IF g.image[1].mode # "RGBA"
        THEN [cfg |-> c, raise |-> "AssertionError", result |-> None]
        ELSE IF ~HasValue(c.style)
        THEN [cfg |-> c, raise |-> "AttributeError", result |-> None]
        ELSE [cfg |-> c, raise |-> NoName, result |-> Some(MakeResult(c, g.image[1]))]

-----------------------------------------------------------------------------
(* Inputs *)

EnginePrompts == {"red rose", "Neon City", "   "}
Widths  == {100, 512, 2000}
Heights == {100, 300, 2000}
Seeds   == {None, Some(0), Some(7), Some(-1)}

Configs ==
    [prompt : EnginePrompts, width : Widths, height : Heights,
     style : StyleTags, seed : Seeds]

\* hash(str) is keyed by a secret drawn when the process starts
\* (PYTHONHASHSEED): within a process it is a function of the string, and a
\* new process draws every value afresh.
HashVals == {-5, 12345}

-----------------------------------------------------------------------------
(* generate_image, step by step: one call, with any config, in any process *)

EngineInit ==
    /\ strhash \in [EnginePrompts -> HashVals]
    /\ raster \in Rasters
    /\ arg \in Configs
    /\ cfg = arg
    /\ pc = "clamp"
    /\ pal = None
    /\ img = None
    /\ va = None
    /\ result = None
    /\ err = NoName

StepClamp ==
    /\ pc = "clamp"
    /\ cfg' = ClampConfig(cfg)
    /\ pc' = "detect"
    /\ UNCHANGED <<procVars, arg, pal, img, va, result, err, notEngine>>

\* the detection step run for every style, auto or not
StepDetectAlways ==
    /\ pc = "detect"
    /\ cfg' = [cfg EXCEPT !.style = DetectStyle(cfg.prompt)]
    /\ pc' = "palette"
    /\ UNCHANGED <<procVars, arg, pal, img, va, result, err, notEngine>>

StepDetect ==
    /\ pc = "detect"
    /\ cfg' = ResolveStyle(cfg)
    /\ pc' = "palette"
    /\ UNCHANGED <<procVars, arg, pal, img, va, result, err, notEngine>>

StepPalette ==
    /\ pc = "palette"
    /\ pal' = PromptToColors(cfg.prompt)
    /\ pc' = "dispatch"
    /\ UNCHANGED <<procVars, arg, cfg, img, va, result, err, notEngine>>

\* gen_fn = STYLE_MAP.get(cfg.style, gen_geometric); img = gen_fn(cfg, c1, c2, c3)
StepDispatch ==
    /\ pc = "dispatch"
    /\ LET g == CallGenerator(LookupGenerator(cfg.style), cfg, pal, strhash, raster)
       IN  IF g.raise # NoName
           THEN /\ err' = g.raise
                /\ pc' = "raised"
                /\ img' = img
           ELSE /\ img' = g.image
                /\ pc' = "assert"
                /\ err' = err
    /\ UNCHANGED <<procVars, arg, cfg, pal, va, result, notEngine>>

\* assert img.mode == "RGBA"
StepAssert ==
    /\ pc = "assert"
    /\ IF img[1].mode = "RGBA"
       THEN pc' = "verify" /\ err' = err
       ELSE pc' = "raised" /\ err' = "AssertionError"
    /\ UNCHANGED <<procVars, arg, cfg, pal, img, va, result, notEngine>>

\* has_alpha, transparent_pct = verify_alpha(img)
StepVerify ==
    /\ pc = "verify"
    /\ va' = Some(VerifyAlpha(img[1]))
    /\ pc' = "return"
    /\ UNCHANGED <<procVars, arg, cfg, pal, img, result, err, notEngine>>

\* return GenerationResult(image=img, style_used=cfg.style.value, ...)
StepReturn ==
    /\ pc = "return"
    /\ IF HasValue(cfg.style)
       THEN /\ result' = Some([image |-> img[1], style_used |-> cfg.style,
                               alpha_verified |-> va[1].has_t,
                               transparent_pct |-> va[1].pct])
            /\ pc' = "done"
            /\ err' = err
       ELSE /\ err' = "AttributeError"
            /\ pc' = "raised"
            /\ result' = result
    /\ UNCHANGED <<procVars, arg, cfg, pal, img, va, notEngine>>

Next ==
    \/ StepClamp
    \/ StepDetect
    \/ StepPalette
    \/ StepDispatch
    \/ StepAssert
    \/ StepVerify
    \/ StepReturn

-----------------------------------------------------------------------------
(* Two invocations, each taken as a whole, across process restarts.  The    *)
(* engine keeps no state from one call to the next: what a call reads is   *)
(* its config, the tables, and the process's hash().                       *)

RepeatPrompts == {"red rose", "Neon City"}

RepeatConfigs ==
    [prompt : RepeatPrompts, width : {512}, height : {300},
     style : ImageStyle, seed : Seeds]

RepeatInit ==
    /\ strhash \in [RepeatPrompts -> HashVals]
    /\ raster \in Rasters
    /\ ref = None
    /\ last = None

\* generate_image(c) runs to its end in the current process
First(c) ==
    /\ ref = None
    /\ ref' = Some([arg |-> c] @@ GenerateImage(c, strhash, raster))
    /\ UNCHANGED <<procVars, last, notRepeat>>

\* a later invocation, in the process then running, with a config equal to
\* the first one in prompt, size and style, and with any seed
Again(seed) ==
    /\ ref # None
    /\ LET c == [ref[1].arg EXCEPT !.seed = seed]
       IN  last' = Some([arg |-> c] @@ GenerateImage(c, strhash, raster))
    /\ UNCHANGED <<procVars, ref, notRepeat>>

\* the server process ends and a new one starts
Restart ==
    /\ strhash' \in [RepeatPrompts -> HashVals]
    /\ strhash' # strhash
    /\ UNCHANGED <<raster, ref, last, notRepeat>>

NextRepeat ==
    \/ \E c \in RepeatConfigs : First(c)
    \/ \E seed \in Seeds : Again(seed)
    \/ Restart

-----------------------------------------------------------------------------
(* Concurrent invocations of generate_image in one process, each on its own *)
(* config object.  A frame holds what one invocation owns: the config      *)
(* object it was passed and its locals.  The steps are those of            *)
(* generate_image; the scheduler picks which invocation moves next.        *)

NumCalls == 2

Invocations == 1..NumCalls

ConcConfigs ==
    { [prompt |-> "red rose", width |-> 100, height |-> 2000, style |-> "auto", seed |-> None],
      [prompt |-> "red rose", width |-> 512, height |-> 300, style |-> "badge", seed |-> Some(7)],
      [prompt |-> "Neon City", width |-> 512, height |-> 300, style |-> "watercolor", seed |-> None],
      [prompt |-> "Neon City", width |-> 2000, height |-> 100, style |-> "pixel", seed |-> Some(-1)] }

NewFrame(c) ==
    [cfg |-> c, pc |-> "clamp", pal |-> None, img |-> None, va |-> None,
     result |-> None, err |-> NoName]

\* one step of generate_image on the frame f
StepFrame(f, h, r) ==
    CASE f.pc = "clamp"    -> [f EXCEPT !.cfg = ClampConfig(f.cfg), !.pc = "detect"]
      [] f.pc = "detect"   -> [f EXCEPT !.cfg = ResolveStyle(f.cfg), !.pc = "palette"]
      [] f.pc = "palette"  -> [f EXCEPT !.pal = PromptToColors(f.cfg.prompt), !.pc = "dispatch"]
      [] f.pc = "dispatch" ->
            LET g == CallGenerator(LookupGenerator(f.cfg.style), f.cfg, f.pal, h, r)
            IN  IF g.raise # NoName
                THEN [f EXCEPT !.err = g.raise, !.pc = "raised"]
                ELSE [f EXCEPT !.img = g.image, !.pc = "assert"]
      [] f.pc = "assert"   ->
            IF f.img[1].mode = "RGBA"
            THEN [f EXCEPT !.pc = "verify"]
            ELSE [f EXCEPT !.err = "AssertionError", !.pc = "raised"]
      [] f.pc = "verify"   -> [f EXCEPT !.va = Some(VerifyAlpha(f.img[1])), !.pc = "return"]
      [] f.pc = "return"   ->
            IF HasValue(f.cfg.style)
            THEN [f EXCEPT !.result = Some([image |-> f.img[1],
                                            style_used |-> f.cfg.style,
                                            alpha_verified |-> f.va[1].has_t,
                                            transparent_pct |-> f.va[1].pct]),
                           !.pc = "done"]
            ELSE [f EXCEPT !.err = "AttributeError", !.pc = "raised"]

\* every invocation working on the frame of the first one, as if the config
\* and the locals were module-level objects
FrameOfFirst(i) == calls[1]

\* the frame invocation i works on: its own
Frame(i) == calls[i]

ConcInit ==
    /\ strhash \in [{"red rose", "Neon City"} -> HashVals]
    /\ raster \in Rasters
    /\ cargs \in [Invocations -> ConcConfigs]
    /\ calls = [i \in Invocations |-> NewFrame(cargs[i])]

\* invocation i executes its next step
ConcStep(i) ==
    /\ Frame(i).pc \notin {"done", "raised"}
    /\ calls' = [calls EXCEPT ![i] = StepFrame(Frame(i), strhash, raster)]
    /\ UNCHANGED <<procVars, cargs, notConc>>

NextConc == \E i \in Invocations : ConcStep(i)

-----------------------------------------------------------------------------
(* gen_flower called on its own, with any colours *)

FlowerVocabulary ==
    {"red", "rose", "Tulip", "pink", "lotus", "yellow", "sunflower", "dahlia",
     "cherry", "SAKURA", "mawar", "blue", "daisy"}

RECURSIVE FlowerPromptsOf(_)
FlowerPromptsOf(n) ==
    IF n = 1 THEN FlowerVocabulary
    ELSE LET shorter == FlowerPromptsOf(n - 1)
         IN  shorter \cup {p \o " " \o w : p \in shorter, w \in FlowerVocabulary}

FlowerPrompts == FlowerPromptsOf(MaxWords)

FlowerPalettes == {palettes[1].colors, palettes[2].colors}

\* the process's hash() is needed for the prompt of the call only
FlowerInit ==
    /\ fcfg \in [prompt : FlowerPrompts, width : {512}, height : {300},
                  style : {"flower"}, seed : Seeds]
    /\ fpal \in FlowerPalettes
    /\ strhash \in {[q \in {fcfg.prompt} |-> v] : v \in HashVals}
    /\ raster = 1
    /\ fimg = None

\* img = gen_flower(cfg, c1, c2, c3)
CallFlower ==
    /\ fimg = None
    /\ fimg' = Some(gen_flower(fcfg, fpal, strhash, raster))
    /\ UNCHANGED <<fcfg, fpal, procVars, notFlower>>

NextFlower == CallFlower

-----------------------------------------------------------------------------
(* gen_isometric called on its own, one draw operation at a time *)

IsoVocabulary == {"flower", "City", "castle", "taman", "magic", "urban", "x"}

RECURSIVE IsoPromptsOf(_)
IsoPromptsOf(n) ==
    IF n = 1 THEN IsoVocabulary
    ELSE LET shorter == IsoPromptsOf(n - 1)
         IN  shorter \cup {p \o " " \o w : p \in shorter, w \in IsoVocabulary}

IsoPrompts == IsoPromptsOf(MaxWords)

IsoInit ==
    /\ icfg \in [prompt : IsoPrompts, width : {256}, height : {300, 1024},
                  style : {"isometric"}, seed : {None, Some(7), Some(-1)}]
    /\ strhash = [q \in {icfg.prompt} |-> 12345]
    /\ raster = 1
    /\ ipc = "rng"
    /\ iops = <<>>
    /\ ipx = None

\* rng = np.random.default_rng(cfg.seed or hash(cfg.prompt) % 99999)
IsoSeed ==
    /\ ipc = "rng"
    /\ ipc' = IF DefaultRngAccepts(RngSeed(icfg, strhash)) THEN "ground" ELSE "raised"
    /\ UNCHANGED <<icfg, iops, ipx, procVars, notIso>>

\* the next draw_platform of the ground loop
DrawTile ==
    /\ ipc = "ground"
    /\ iops' = Append(iops, GroundTiles[Len(iops) + 1])
    /\ ipc' = IF Len(iops') = Len(GroundTiles) THEN "scene" ELSE "ground"
    /\ UNCHANGED <<icfg, ipx, procVars, notIso>>

\* A pixel: its colour and its alpha.
Pixel(rgb, a) == [rgb |-> rgb, a |-> a]

\* shade(col, factor) with the factor in hundredths
shade(col, factor) ==
    [ch \in 1..3 |-> LET v == (col[ch] * factor) \div 100
                     IN  IF v > 255 THEN 255 ELSE v]

\* The sampled pixel lies on the right face of the core cube (alpha 255) of
\* the flower at (1, 1.2), next to the lowest corner of the cube, which is
\* (0.82 - h_stem) * scale below the origin.  On a 256 x 1024 canvas scale
\* is 28.4 and the point is 19 to 62 pixels above the origin for every
\* h_stem in [1.5, 3.0), inside the shadow ellipse (half height 61).  The
\* objects drawn after the core (the two outer flowers) are 49 and 74
\* pixels to the side; no thin leaf covers the whole face.
SampleObject == Op("center", 100 - 15, 120 - 15)
SampleInShadow(c) == c.width = 256 /\ c.height = 1024

\* what the blur leaves of the alpha 30 of the ellipse at a point inside it
BlurredAlphas == {1, 12, 30}

\* Image.alpha_composite(dst, src) at one pixel: src over dst, in the
\* fixed-point arithmetic of PIL (7 bits of precision, division by 255 by
\* shifts)
AlphaComposite(dst, src) ==
    IF src.a = 0 THEN dst
    ELSE LET div255(a) == ((a \div 256) + a) \div 256
             blend   == dst.a * (255 - src.a)
             outa255 == src.a * 255 + blend
             coef1   == (src.a * 255 * 255 * 128) \div outa255
             coef2   == 255 * 128 - coef1
             ch(i)   == div255(src.rgb[i] * coef1 + dst.rgb[i] * coef2 + 128 * 128)
                            \div 128
         IN  Pixel(<<ch(1), ch(2), ch(3)>>, div255(outa255 + 128))

\* the next draw_cube of the scene chosen by the prompt; the right face,
\* drawn last, is filled with shade(base_col, 0.55)
DrawObject ==
    /\ ipc = "scene"
    /\ LET objects == SceneOps(IsoScene(Lower(icfg.prompt)))
           object  == objects[Len(iops) - Len(GroundTiles) + 1]
       IN  /\ iops' = Append(iops, object)
           /\ ipc' = IF Len(iops') = Len(GroundTiles) + Len(objects)
                     THEN "shadow" ELSE "scene"
           /\ ipx' = IF object = SampleObject /\ SampleInShadow(icfg)
                     THEN Some([scene |-> Pixel(shade(<<255, 220, 50>>, 55), 255),
                                out   |-> Pixel(shade(<<255, 220, 50>>, 55), 255)])
                     ELSE ipx
    /\ UNCHANGED <<icfg, procVars, notIso>>

\* shadow = shadow.filter(GaussianBlur(20));
\* img = Image.alpha_composite(img, shadow); return img
CompositeShadow ==
    /\ ipc = "shadow"
    /\ iops' = Append(iops, Op("shadow", 0, 0))
    /\ ipc' = "done"
    /\ \E a \in BlurredAlphas :
          ipx' = IF ipx = None THEN None
                 ELSE Some([ipx[1] EXCEPT
                              !.out = AlphaComposite(ipx[1].scene, Pixel(<<0, 0, 0>>, a))])
    /\ UNCHANGED <<icfg, procVars, notIso>>

NextIso ==
    \/ IsoSeed
    \/ DrawTile
    \/ DrawObject
    \/ CompositeShadow

-----------------------------------------------------------------------------
(* The key-value memory store of src/store_router.py over the table        *)
(* memory_store of src/database.py.  Handlers are coroutines: a handler    *)
(* gives up the event loop at each await, so between the SELECT of         *)
(* store_data and the commit of its session other requests run.  What a    *)
(* session wrote becomes visible to the others when get_db commits.        *)

\* user ids come from the token or from the X-User-Id header; namespaces
\* and keys from the request.  All are arbitrary strings.
StoreUsers      == {"a", "a::b"}
StoreNamespaces == {"c", "b::c"}
StoreKeys       == {"d"}
StoreValues     == {"v1", "v2"}

Sessions == {1, 2}

MaxInserts == 2

\* f"{user.user_id}::{namespace}::{key}"
ScopedKey(u, ns, k) == u \o "::" \o ns \o "::" \o k

StartsWith(str, prefix) ==
    Len(str) >= Len(prefix) /\ SubSeq(str, 1, Len(prefix)) = prefix

\* the rows a SELECT ... WHERE key = scoped_key returns
RowsWithKey(key) == {r \in mtable : r.key = key}

Idle == [pc |-> "idle", user |-> "", key |-> "", data |-> "", found |-> 0]

NoResponse == [op |-> "none", user |-> "", status |-> "", records |-> {}]

StoreInit ==
    /\ mtable = {}
    /\ nextid = 0
    /\ sreq = [s \in Sessions |-> Idle]
    /\ actor = ""
    /\ resp = NoResponse

\* store_data up to `record = existing.scalar_one_or_none()`: more than one
\* row raises MultipleResultsFound and get_db rolls back
StoreSelect(s, u, ns, k, v) ==
    /\ sreq[s].pc = "idle"
    /\ actor' = u
    /\ LET rows == RowsWithKey(ScopedKey(u, ns, k))
       IN  IF Cardinality(rows) > 1
           THEN /\ resp' = [op |-> "store", user |-> u,
                            status |-> "MultipleResultsFound", records |-> {}]
                /\ sreq' = sreq
           ELSE /\ sreq' = [sreq EXCEPT ![s] =
                               [pc |-> "write", user |-> u,
                                key |-> ScopedKey(u, ns, k), data |-> v,
                                found |-> IF rows = {} THEN 0
                                          ELSE (CHOOSE r \in rows : TRUE).id]]
                /\ resp' = resp
    /\ UNCHANGED <<mtable, nextid, notStore>>

\* the rest of store_data and the commit of get_db: the record found is
\* updated (its user_id column is left as it is), or a new row is inserted.
\* An UPDATE of a row deleted meanwhile matches no row: the flush raises
\* StaleDataError and the session is rolled back.
StoreCommit(s) ==
    /\ sreq[s].pc = "write"
    /\ sreq[s].found = 0 => nextid < MaxInserts
    /\ actor' = sreq[s].user
    /\ LET q == sreq[s]
           payload == [data |-> q.data, user_id |-> q.user]
       IN  IF q.found = 0
           THEN /\ nextid' = nextid + 1
                /\ mtable' = mtable \cup
                      {[id |-> nextid + 1, key |-> q.key, user_id |-> q.user,
                        value |-> payload]}
                /\ resp' = [op |-> "store", user |-> q.user, status |-> "success",
                            records |-> {}]
           ELSE IF \E r \in mtable : r.id = q.found
           THEN /\ mtable' = {IF r.id = q.found THEN [r EXCEPT !.value = payload] ELSE r :
                                  r \in mtable}
                /\ nextid' = nextid
                /\ resp' = [op |-> "store", user |-> q.user, status |-> "success",
                            records |-> {}]
           ELSE /\ resp' = [op |-> "store", user |-> q.user,
                            status |-> "StaleDataError", records |-> {}]
                /\ UNCHANGED <<mtable, nextid>>
    /\ sreq' = [sreq EXCEPT ![s] = Idle]
    /\ UNCHANGED notStore

\* retrieve_data: `records` is the row whose value.data the response holds
Retrieve(u, ns, k) ==
    /\ actor' = u
    /\ LET rows == RowsWithKey(ScopedKey(u, ns, k))
       IN  resp' = [op |-> "retrieve", user |-> u,
                    status |-> IF rows = {} THEN "404"
                               ELSE IF Cardinality(rows) > 1 THEN "MultipleResultsFound"
                               ELSE "success",
                    records |-> IF Cardinality(rows) = 1 THEN rows ELSE {}]
    /\ UNCHANGED <<mtable, nextid, sreq, notStore>>

\* list_keys: the rows with the user's id in the user_id column whose key
\* starts with the user's prefix
ListKeys(u, ns) ==
    /\ actor' = u
    /\ resp' = [op |-> "list", user |-> u, status |-> "success",
                records |-> {r \in mtable : /\ r.user_id = u
                                            /\ StartsWith(r.key, u \o "::" \o ns \o "::")}]
    /\ UNCHANGED <<mtable, nextid, sreq, notStore>>

\* delete_data and the commit of get_db
Delete(u, ns, k) ==
    /\ actor' = u
    /\ mtable' = mtable \ RowsWithKey(ScopedKey(u, ns, k))
    /\ resp' = [op |-> "delete", user |-> u, status |-> "success", records |-> {}]
    /\ UNCHANGED <<nextid, sreq, notStore>>

NextStore ==
    \/ \E s \in Sessions, u \in StoreUsers, ns \in StoreNamespaces,
          k \in StoreKeys, v \in StoreValues : StoreSelect(s, u, ns, k, v)
    \/ \E s \in Sessions : StoreCommit(s)
    \/ \E u \in StoreUsers, ns \in StoreNamespaces, k \in StoreKeys : Retrieve(u, ns, k)
    \/ \E u \in StoreUsers, ns \in StoreNamespaces : ListKeys(u, ns)
    \/ \E u \in StoreUsers, ns \in StoreNamespaces, k \in StoreKeys : Delete(u, ns, k)

-----------------------------------------------------------------------------
(* verify_alpha as a pure function of the image *)

VerifyWidths  == {256, 512, 1024}
VerifyHeights == {256, 300, 1024}

\* counts of alpha == 0 pixels tried for an image of n pixels
ZeroSamples(n) ==
    {0, 1, 2, 3, 4, n \div 20000, n \div 20000 + 1, n \div 2, n - 1, n}

VerifyInit ==
    /\ \E W \in VerifyWidths, H \in VerifyHeights :
         \E z \in ZeroSamples(W * H) :
            vimg = Image("any", W, H, z, [pal |-> None, rng |-> None, text |-> None])
    /\ vres = None

CallVerify ==
    /\ vres = None
    /\ vres' = Some(VerifyAlpha(vimg))
    /\ UNCHANGED <<vimg, notVerify>>

NextVerify == CallVerify

-----------------------------------------------------------------------------
(* gen_flower called on its own, one composited layer at a time *)

DrawPrompts == {"rose", "SAKURA", "lotus", "sunflower", "dahlia", "Tulip", "daisy", "x y"}
DrawSeeds   == {None, Some(7), Some(8), Some(10), Some(-1)}

\* A draw operation of gen_flower: its kind; for a petal polygon and its
\* vein the layer index, the slot index p_idx and the layer radius; for a
\* pollen dot its index i.
FlowerOp(kind, layer, slot, r) == [kind |-> kind, layer |-> layer, slot |-> slot, r |-> r]

\* layer_r growing from 0.45 max_r at layer 0 to max_r at the last layer
LayerROutward(layer_idx, layers) ==
    4500 + (5500 * layer_idx) \div (IF layers - 1 > 1 THEN layers - 1 ELSE 1)

\* t = layer_idx / max(layers - 1, 1); layer_r = max_r * (1 - t * 0.55),
\* in ten-thousandths of max_r
LayerR(layer_idx, layers) ==
    10000 - (5500 * layer_idx) \div (IF layers - 1 > 1 THEN layers - 1 ELSE 1)

\* petals, layers of the flower the call draws
DrawShape == gen_flower(dcfg, palettes[1].colors, strhash, raster).image[1].px.shape

DrawInit ==
    /\ dcfg \in [prompt : DrawPrompts, width : {512}, height : {300},
                  style : {"flower"}, seed : DrawSeeds]
    /\ strhash \in {[q \in {dcfg.prompt} |-> v] : v \in {12345}}
    /\ raster = 1
    /\ dpc = "aura"
    /\ dops = <<>>

\* rng = np.random.default_rng(...); the aura rings, blurred, composited
DrawAura ==
    /\ dpc = "aura"
    /\ IF gen_flower(dcfg, palettes[1].colors, strhash, raster).raise # NoName
       THEN dpc' = "raised" /\ dops' = dops
       ELSE dpc' = "petals" /\ dops' = Append(dops, FlowerOp("aura", -1, 0, 0))
    /\ UNCHANGED <<dcfg, notDraw>>

\* one pass of the loop over p_idx inside the loop over layer_idx
DrawPetal ==
    /\ dpc = "petals"
    /\ LET petals    == DrawShape[1]
           layers    == DrawShape[2]
           n         == (Len(dops) - 1) \div 2
           layer_idx == n \div petals
           p_idx     == n % petals
           layer_r   == LayerR(layer_idx, layers)
       IN  /\ dops' = dops \o <<FlowerOp("polygon", layer_idx, p_idx, layer_r),
                                FlowerOp("vein", layer_idx, p_idx, layer_r)>>
           /\ dpc' = IF n + 1 = petals * layers THEN "stamen" ELSE "petals"
    /\ UNCHANGED <<dcfg, notDraw>>

\* the stamen disc, the inner disc, sari_count = 8 pollen dots
DrawStamen ==
    /\ dpc = "stamen"
    /\ dops' = dops \o <<FlowerOp("disc", -1, 0, 0), FlowerOp("inner", -1, 0, 0)>>
                    \o [i \in 1..8 |-> FlowerOp("pollen", -1, i - 1, 0)]
    /\ dpc' = "gloss"
    /\ UNCHANGED <<dcfg, notDraw>>

\* the gloss ellipse, blurred, composited; return img
DrawGloss ==
    /\ dpc = "gloss"
    /\ dops' = Append(dops, FlowerOp("gloss", -1, 0, 0))
    /\ dpc' = "done"
    /\ UNCHANGED <<dcfg, notDraw>>

NextDraw == DrawAura \/ DrawPetal \/ DrawStamen \/ DrawGloss

-----------------------------------------------------------------------------
(* POST /api/generate-image of src/image_router.py: the engine, then the    *)
(* storage backend, then the session of get_db.  The handler awaits the     *)
(* storage and the database; either may fail.                               *)

MaxRequests == 3

EndpointUsers == {"dev_user_001", "u2"}

\* GenerateRequest: width and height within 256..1024, style an ImageStyle
EndpointConfigs ==
    [prompt : {"red rose"}, width : {512}, height : {300},
     style : {"auto", "badge"}, seed : {None, Some(-1)}]

\* user.user_id[:8]
KeyPrefix(u) == SubSeq(u, 1, IF Len(u) < 8 THEN Len(u) ELSE 8)

\* f"{user.user_id[:8]}_{uuid.uuid4().hex[:12]}": a fresh key for each request
ImageKey(u, n) == <<KeyPrefix(u), n>>

NoRequest == [pc |-> "idle", key |-> None, status |-> NoName]

EndpointInit ==
    /\ strhash \in [{"red rose"} -> {12345}]
    /\ raster = 1
    /\ estorage = {}
    /\ images = {}
    /\ ereq = NoRequest
    /\ ecount = 0

\* result = generate_image(cfg); image_key = ...; an exception of the engine
\* becomes HTTPException(500)
EndpointGenerate(u, c) ==
    /\ ereq.pc = "idle"
    /\ ecount < MaxRequests
    /\ ecount' = ecount + 1
    /\ ereq' = IF GenerateImage(c, strhash, raster).raise # NoName
               THEN [pc |-> "idle", key |-> None, status |-> "500"]
               ELSE [pc |-> "save", key |-> Some(ImageKey(u, ecount + 1)),
                     status |-> NoName]
    /\ UNCHANGED <<estorage, images, notEndpoint>>

\* image_url = await store.save(result.image, image_key)
EndpointSave(ok) ==
    /\ ereq.pc = "save"
    /\ IF ok
       THEN /\ estorage' = estorage \cup {ereq.key[1]}
            /\ ereq' = [ereq EXCEPT !.pc = "flush"]
       ELSE /\ estorage' = estorage
            /\ ereq' = [ereq EXCEPT !.pc = "idle", !.status = "500"]
    /\ UNCHANGED <<images, ecount, notEndpoint>>

\* db.add(record); await db.flush(); an exception becomes HTTPException(500)
\* and get_db rolls the session back
EndpointFlush(ok) ==
    /\ ereq.pc = "flush"
    /\ ereq' = IF ok THEN [ereq EXCEPT !.pc = "commit"]
               ELSE [ereq EXCEPT !.pc = "idle", !.status = "500"]
    /\ UNCHANGED <<estorage, images, ecount, notEndpoint>>

\* get_db after the handler returned: await session.commit(), or rollback
\* and re-raise
EndpointCommit(ok) ==
    /\ ereq.pc = "commit"
    /\ IF ok
       THEN /\ images' = images \cup {ereq.key[1]}
            /\ ereq' = [ereq EXCEPT !.pc = "idle", !.status = "success"]
       ELSE /\ images' = images
            /\ ereq' = [ereq EXCEPT !.pc = "idle", !.status = "500"]
    /\ UNCHANGED <<estorage, ecount, notEndpoint>>

NextEndpoint ==
    \/ \E u \in EndpointUsers, c \in EndpointConfigs : EndpointGenerate(u, c)
    \/ \E ok \in BOOLEAN : EndpointSave(ok)
    \/ \E ok \in BOOLEAN : EndpointFlush(ok)
    \/ \E ok \in BOOLEAN : EndpointCommit(ok)

-----------------------------------------------------------------------------
(* Specifications *)

DetectOff == dprompt = "" /\ dstyle = NoName /\ dlower = NoName /\ dupper = NoName
ProcOff   == strhash = None /\ raster = 1
EngineOff == /\ arg = None /\ cfg = None /\ pc = "off" /\ pal = None /\ img = None
             /\ va = None /\ result = None /\ err = NoName
RepeatOff == ref = None /\ last = None
VerifyOff == vimg = None /\ vres = None
ColorsOff == cprompt = "" /\ ccolors = None
ConcOff   == cargs = None /\ calls = None
FlowerOff == fcfg = None /\ fpal = None /\ fimg = None
IsoOff    == icfg = None /\ ipc = "off" /\ iops = <<>> /\ ipx = None
StoreOff  == /\ mtable = {} /\ nextid = 0 /\ sreq = None /\ actor = ""
             /\ resp = None
DrawOff   == dcfg = None /\ dpc = "off" /\ dops = <<>>
EndpointOff == estorage = {} /\ images = {} /\ ereq = None /\ ecount = 0

Init == EngineInit /\ DetectOff /\ RepeatOff /\ VerifyOff /\ ColorsOff /\ ConcOff /\ FlowerOff
    /\ IsoOff /\ StoreOff /\ DrawOff /\ EndpointOff
Spec == Init /\ [][Next]_vars

InitRepeat == RepeatInit /\ DetectOff /\ EngineOff /\ VerifyOff /\ ColorsOff /\ ConcOff /\ FlowerOff
    /\ IsoOff /\ StoreOff /\ DrawOff /\ EndpointOff
SpecRepeat == InitRepeat /\ [][NextRepeat]_vars

InitVerify == VerifyInit /\ DetectOff /\ ProcOff /\ EngineOff /\ RepeatOff /\ ColorsOff /\ ConcOff /\ FlowerOff
    /\ IsoOff /\ StoreOff /\ DrawOff /\ EndpointOff
SpecVerify == InitVerify /\ [][NextVerify]_vars

InitDetect == DetectInit /\ ProcOff /\ EngineOff /\ RepeatOff /\ VerifyOff /\ ColorsOff /\ ConcOff /\ FlowerOff
    /\ IsoOff /\ StoreOff /\ DrawOff /\ EndpointOff
SpecDetect == InitDetect /\ [][NextDetect]_vars

InitColors == ColorsInit /\ DetectOff /\ ProcOff /\ EngineOff /\ RepeatOff /\ VerifyOff /\ ConcOff /\ FlowerOff
    /\ IsoOff /\ StoreOff /\ DrawOff /\ EndpointOff
SpecColors == InitColors /\ [][NextColors]_vars

InitConc == ConcInit /\ DetectOff /\ EngineOff /\ RepeatOff /\ VerifyOff /\ ColorsOff /\ FlowerOff
    /\ IsoOff /\ StoreOff /\ DrawOff /\ EndpointOff
SpecConc == InitConc /\ [][NextConc]_vars

InitFlower == FlowerInit /\ DetectOff /\ EngineOff /\ RepeatOff /\ VerifyOff /\ ColorsOff /\ ConcOff
    /\ IsoOff /\ StoreOff /\ DrawOff /\ EndpointOff
SpecFlower == InitFlower /\ [][NextFlower]_vars

InitIso == IsoInit /\ DetectOff /\ EngineOff /\ RepeatOff /\ VerifyOff /\ ColorsOff /\ ConcOff
    /\ FlowerOff /\ StoreOff /\ DrawOff /\ EndpointOff
SpecIso == InitIso /\ [][NextIso]_vars

InitStore == StoreInit /\ DetectOff /\ ProcOff /\ EngineOff /\ RepeatOff /\ VerifyOff
    /\ ColorsOff /\ ConcOff /\ FlowerOff /\ IsoOff /\ DrawOff /\ EndpointOff
SpecStore == InitStore /\ [][NextStore]_vars

InitDraw == DrawInit /\ DetectOff /\ EngineOff /\ RepeatOff /\ VerifyOff /\ ColorsOff
    /\ ConcOff /\ FlowerOff /\ IsoOff /\ StoreOff /\ EndpointOff
SpecDraw == InitDraw /\ [][NextDraw]_vars

InitEndpoint == EndpointInit /\ DetectOff /\ EngineOff /\ RepeatOff /\ VerifyOff /\ ColorsOff
    /\ ConcOff /\ FlowerOff /\ IsoOff /\ StoreOff /\ DrawOff
SpecEndpoint == InitEndpoint /\ [][NextEndpoint]_vars

-----------------------------------------------------------------------------
(* Properties *)

\* C1: the image generate_image returns is RGBA (4 channels) and its size is
\* min(max(width,256),1024) x min(max(height,256),1024) of the requested
\* size; 2000x2000 gives 1024x1024 and 100x100 gives 256x256.
C1_SizeAndChannels ==
    pc = "done" =>
        LET im == result[1].image
            lim(n) == IF n < 256 THEN 256 ELSE IF n > 1024 THEN 1024 ELSE n
        IN  /\ im.mode = "RGBA"
            /\ im.width = lim(arg.width)
            /\ im.height = lim(arg.height)
            /\ arg.width = 2000 /\ arg.height = 2000 => im.width = 1024 /\ im.height = 1024
            /\ arg.width = 100 /\ arg.height = 100 => im.width = 256 /\ im.height = 256

C1_Witness ==
    /\ pc = "done"
    /\ arg.width = 100 /\ arg.height = 2000
    /\ result[1].image.width = 256 /\ result[1].image.height = 1024

\* C2: two invocations with the same prompt, explicit seed, style and size
\* end the same way and return identical images, style_used, alpha_verified
\* and transparent_pct.
C2_Determinism ==
    (ref # None /\ last # None /\ last[1].arg = ref[1].arg /\ ref[1].arg.seed # None)
        => last[1].raise = ref[1].raise /\ last[1].result = ref[1].result

\* C3: a generator that seeds a PRNG seeds it with config.seed whenever the
\* seed is present (0 included), and with the prompt hash only when it is
\* absent.
C3_ExplicitSeedUsed ==
    (img # None /\ img[1].px.rng # None)
        => img[1].px.rng = (IF arg.seed # None THEN arg.seed
                            ELSE Some(strhash[arg.prompt] % 99999))

\* C4: a seedless request with the same prompt, style and size yields the
\* same image in every process.
C4_SeedlessStable ==
    (ref # None /\ last # None /\ last[1].arg = ref[1].arg /\ ref[1].arg.seed = None)
        => last[1].raise = ref[1].raise /\ last[1].result = ref[1].result

\* C5: generate_image does not raise on a well-typed config; the only
\* exception that can end a call is the failed RGBA assertion.
C5_NeverRaises ==
    (pc = "raised" /\ arg.style \in ImageStyle) => err = "AssertionError"

\* C6: transparent_pct is within [0,100] and is 100 * alpha0 / (width*height)
\* of the returned image rounded to 2 decimals (hundredths: at most half a
\* unit from 10000 * alpha0 / n; both sides are divided by 16 to stay within
\* 32 bits).
C6_TransparentPct ==
    pc = "done" =>
        LET r == result[1]
            n == r.image.width * r.image.height
        IN  /\ r.image = img[1]
            /\ r.transparent_pct \in 0..10000
            /\ n % 16 = 0
            /\ 2 * Abs(r.transparent_pct * (n \div 16) - 625 * r.image.alpha0) <= n \div 16

C6_Witness ==
    /\ pc = "done"
    /\ result[1].transparent_pct > 0
    /\ result[1].transparent_pct < 10000

\* C7 as claimed: alpha_verified is true exactly when the reported
\* transparent_pct is greater than 0.
C7_VerifiedIffPct ==
    vres # None => (vres[1].has_t <=> vres[1].pct > 0)

\* C7 as amended: alpha_verified is true exactly when at least one pixel has
\* alpha 0; a positive transparent_pct implies it, and it is true with
\* transparent_pct = 0.0 exactly when the transparent pixels are at most
\* 0.005% of the image.
C7_VerifiedIffAnyZero ==
    vres # None =>
        LET n == vimg.width * vimg.height
        IN  /\ vres[1].has_t <=> vimg.alpha0 > 0
            /\ vres[1].pct > 0 => vres[1].has_t
            /\ vres[1].pct = 0 <=> vimg.alpha0 <= n \div 20000

C7_Witness ==
    /\ vres # None
    /\ vimg.alpha0 > 0
    /\ vres[1].has_t
    /\ vres[1].pct = 0

\* C8: every image returned has at least one pixel of alpha 0, so
\* alpha_verified is true.
C8_AlwaysTransparent ==
    pc = "done" => result[1].image.alpha0 > 0 /\ result[1].alpha_verified

ClaimedOrder ==
    <<"flower", "isometric", "mandala", "wave", "glow", "starburst", "badge",
      "portrait", "landscape", "text_art", "gradient", "pixel", "geometric">>

KeywordsOf(style) ==
    rules[CHOOSE i \in 1..Len(rules) : rules[i].style = style].keywords

\* C9: detect_style returns the first style, in the order flower, isometric,
\* ..., geometric, one of whose keywords occurs in the lower-cased prompt,
\* and geometric when none does; flower wins over city, and "abstract" alone
\* gives gradient.
C9_FirstRuleWins ==
    dstyle # NoName =>
        LET p == Lower(dprompt)
            M(k) == AnyIn(KeywordsOf(ClaimedOrder[k]), p)
            N == Len(ClaimedOrder)
        IN  /\ \A k \in 1..N :
                  (M(k) /\ \A j \in 1..(k - 1) : ~M(j)) => dstyle = ClaimedOrder[k]
            /\ (\A k \in 1..N : ~M(k)) => dstyle = "geometric"
            /\ (AnyIn(KeywordsOf("flower"), p) /\ Contains(p, "city")) => dstyle = "flower"
            /\ ( /\ Contains(p, "abstract")
                 /\ \A i \in 1..Len(rules) : \A k \in 1..Len(rules[i].keywords) :
                       rules[i].keywords[k] # "abstract" => ~Contains(p, rules[i].keywords[k]) )
               => dstyle = "gradient"

C9_Witness ==
    /\ dstyle = "flower"
    /\ Contains(Lower(dprompt), "city")
    /\ Contains(Lower(dprompt), "flower")

\* C10 as claimed: detect_style(p), detect_style(lower(p)) and
\* detect_style(upper(p)) are the same tag for every prompt p.
C10_LowerUpperAgree ==
    (dstyle # NoName /\ dlower # NoName /\ dupper # NoName)
        => dlower = dstyle /\ dupper = dstyle

\* C10 as amended: detect_style(p) = detect_style(lower(p)) for every
\* prompt, and detect_style(upper(p)) is the same tag for every prompt
\* without a character whose upper-case form lower-cases to something else
\* (such as U+00DF).
C10_LowerAgrees ==
    /\ (dstyle # NoName /\ dlower # NoName) => dlower = dstyle
    /\ (dstyle # NoName /\ dupper # NoName /\ ~Contains(dprompt, SHARP_S)) => dupper = dstyle

C10_Witness ==
    /\ dstyle = "flower"
    /\ dlower = "flower"
    /\ dupper = "flower"
    /\ dprompt # Lower(dprompt)

\* C11: prompt_to_colors returns the colour triple of the first palette
\* entry, in table order, one of whose keywords occurs in the lower-cased
\* prompt; "red fire" gives ((220,50,70), (255,120,80), (180,20,40)).
C11_FirstPaletteWins ==
    ccolors # None =>
        LET p == Lower(cprompt)
            M(i) == \E k \in 1..Len(palettes[i].keywords) :
                        Contains(p, palettes[i].keywords[k])
        IN  /\ \A i \in 1..Len(palettes) :
                  (M(i) /\ \A j \in 1..(i - 1) : ~M(j))
                      => ccolors[1] = palettes[i].colors
            /\ cprompt = "red fire"
                  => ccolors[1] = <<<<220,50,70>>, <<255,120,80>>, <<180,20,40>>>>

\* "fire flower" matches the first entry and the seventh
C11_Witness ==
    /\ cprompt = "fire flower"
    /\ ccolors = Some(<<<<220,50,70>>, <<255,120,80>>, <<180,20,40>>>>)

\* the values prompt_to_colors returns, in any process, for the prompts of
\* the pipeline that match no palette keyword
FallbackPalette(prompt) ==
    CASE prompt = "   "       -> <<<<178,68,229>>, <<255,175,102>>, <<35,178,76>>>>
      [] prompt = "Neon City" -> <<<<68,173,229>>, <<255,102,232>>, <<178,171,35>>>>

\* C12: for a prompt that matches no palette keyword the palette is a
\* function of the prompt alone, the same in every process and for every
\* seed, style and size of the request, and each channel is within 0..255.
C12_FallbackStable ==
    (pal # None /\ arg.prompt \in {"   ", "Neon City"}) =>
        /\ pal = FallbackPalette(arg.prompt)
        /\ \A i \in 1..3 : \A ch \in 1..3 : pal[i][ch] \in 0..255

C12_Witness ==
    /\ pc = "done"
    /\ arg.prompt = "Neon City"
    /\ arg.style = "pixel"
    /\ arg.seed = Some(7)
    /\ strhash["Neon City"] = -5
    /\ pal = FallbackPalette("Neon City")
    /\ result[1].image.px.pal = FallbackPalette("Neon City")

\* C13: a call whose style tag is not a key of STYLE_MAP (and is not auto,
\* which detect_style replaces) is rendered by gen_geometric and returns a
\* GenerationResult without raising.  Negative seeds are left out: they
\* raise for mapped tags too.
C13_UnmappedFallsBack ==
    ( /\ pc \in {"done", "raised"}
      /\ arg.style \notin DOMAIN STYLE_MAP
      /\ arg.style # "auto"
      /\ arg.seed # Some(-1) )
        => /\ pc = "done"
           /\ result # None
           /\ result[1].image.px.gen = "gen_geometric"

\* C14: style_used is the tag of the generator that rendered the image:
\* the detected style when auto was requested, the requested style when it
\* is mapped, "geometric" when the tag is unmapped; never "auto".
C14_StyleUsedIsRenderer ==
    pc = "done" =>
        LET r == result[1]
            rendered == CHOOSE s \in DOMAIN STYLE_MAP : STYLE_MAP[s] = r.image.px.gen
        IN  /\ r.style_used = rendered
            /\ r.style_used # "auto"
            /\ arg.style = "auto" => r.style_used = DetectStyle(arg.prompt)
            /\ arg.style \in DOMAIN STYLE_MAP => r.style_used = arg.style
            /\ arg.style \notin (DOMAIN STYLE_MAP \cup {"auto"}) => r.style_used = "geometric"

\* C15: when the generator is dispatched and from then on, after the return
\* included, the config's width and height are within 256..1024 and its
\* style is not auto; the image a generator made has a size within these
\* limits.
C15_NormalizedAtDispatch ==
    /\ pc \in {"dispatch", "assert", "verify", "return", "done", "raised"} =>
          /\ cfg.width \in 256..1024
          /\ cfg.height \in 256..1024
          /\ cfg.style # "auto"
    /\ img # None =>
          /\ img[1].px.width \in 256..1024
          /\ img[1].px.height \in 256..1024
          /\ img[1].px.gen # "gen_geometric" => STYLE_MAP[cfg.style] = img[1].px.gen

C15_Witness ==
    /\ pc = "done"
    /\ arg.style = "auto" /\ arg.width = 100 /\ arg.height = 2000
    /\ cfg.style = "flower" /\ cfg.width = 256 /\ cfg.height = 1024
    /\ img[1].px.gen = "gen_flower"

\* C17: in every interleaving of concurrent invocations on distinct config
\* objects, each invocation ends as it would when run alone: with the same
\* exception or the same result, and with its config object mutated the
\* same way.
C17_Independent ==
    \A i \in Invocations :
        calls[i].pc \in {"done", "raised"} =>
            LET alone == GenerateImage(cargs[i], strhash, raster)
            IN  /\ calls[i].err = alone.raise
                /\ calls[i].result = alone.result
                /\ calls[i].cfg = alone.cfg

\* invocation 2 ran to its result while invocation 1, on another config,
\* was stopped between its palette step and its dispatch
C17_Witness ==
    /\ calls[1].pc = "dispatch"
    /\ calls[2].pc = "done"
    /\ cargs[1] # cargs[2]
    /\ calls[2].result = GenerateImage(cargs[2], strhash, raster).result

\* C18: with the prompt "red rose" the flower gen_flower renders is the
\* rose entry: 5 petals, 4 layers, petal ratio 0.45 and the colours
\* (200,30,50), (240,80,100), (255,160,140), whatever colours were passed in
\* and whatever the seed.
C18_RedRoseIsRose ==
    (fimg # None /\ fimg[1].raise = NoName /\ fcfg.prompt = "red rose") =>
        /\ fimg[1].image[1].px.text = <<"rose">>
        /\ fimg[1].image[1].px.shape = <<5, 4, 45>>
        /\ fimg[1].image[1].px.pal = <<<<200,30,50>>, <<240,80,100>>, <<255,160,140>>>>

C18_Witness ==
    /\ fimg # None
    /\ fcfg.prompt = "red rose"
    /\ fcfg.seed = Some(7)
    /\ fpal = palettes[2].colors
    /\ fimg[1].image[1].px.pal = <<<<200,30,50>>, <<240,80,100>>, <<255,160,140>>>>
    /\ fimg[1].image[1].px.shape = <<5, 4, 45>>

\* the species names of the six entries, English and Indonesian, in the
\* order of C19; the colour words are not species keywords
SpeciesWords ==
    <<<<"mawar", "rose">>, <<"sakura", "cherry">>, <<"lotus", "teratai">>,
      <<"matahari", "sunflower">>, <<"dahlia">>, <<"tulip">>>>

\* C19: the entry gen_flower renders is the first of rose, cherry/sakura,
\* lotus, sunflower, dahlia, tulip whose species keyword occurs in the
\* lower-cased prompt; without any of them it is the generic entry, with
\* 5..8 petals and 3..4 layers and the colours passed in.  A prompt whose
\* only species keyword is "tulip" gets the tulip entry (6 petals, 2 layers).
C19_SpeciesKeywordsOnly ==
    (fimg # None /\ fimg[1].raise = NoName) =>
        LET p == Lower(fcfg.prompt)
            px == fimg[1].image[1].px
            M(k) == AnyIn(SpeciesWords[k], p)
        IN  /\ \A k \in 1..6 :
                  (M(k) /\ \A j \in 1..(k - 1) : ~M(j))
                      => /\ px.text = <<species[k].name>>
                         /\ px.shape = species[k].shape
                         /\ px.pal = species[k].colors
            /\ (\A k \in 1..6 : ~M(k))
                  => /\ px.text = <<"generic">>
                     /\ px.shape[1] \in 5..8
                     /\ px.shape[2] \in 3..4
                     /\ px.pal = fpal
            /\ (M(6) /\ \A j \in 1..5 : ~M(j))
                  => px.shape[1] = 6 /\ px.shape[2] = 2

\* the grid cells C20 names: gx, gy in -3..3 with |gx| + |gy| <= 4
ClaimedTiles ==
    {<<gx, gy>> \in (-3..3) \X (-3..3) : Abs(gx) + Abs(gy) <= 4}

\* the grid cells of the tiles among the first n draw operations
TilesDrawn(n) ==
    {<<iops[k].x \div 100, iops[k].y \div 100>> :
        k \in {j \in 1..n : iops[j].kind = "tile"}}

\* C20: gen_isometric draws the whole ground platform before any theme
\* object; the platform includes the tile at (0,0), and its tiles are the
\* cells with gx, gy in -3..3 and |gx| + |gy| <= 4 for every theme, prompt,
\* size and seed.
C20_PlatformFirst ==
    /\ \A k \in 1..Len(iops) :
          iops[k].kind # "tile" => TilesDrawn(k - 1) = ClaimedTiles
    /\ ipc \in {"scene", "shadow", "done"} =>
          /\ TilesDrawn(Len(iops)) = ClaimedTiles
          /\ <<0, 0>> \in TilesDrawn(Len(iops))
          /\ \A k \in 1..Cardinality(ClaimedTiles) : iops[k].kind = "tile"

C20_Witness ==
    /\ ipc = "done"
    /\ IsoScene(Lower(icfg.prompt)) = "city"
    /\ iops[1].kind = "tile"
    /\ iops[Cardinality(ClaimedTiles) + 1].kind = "building"
    /\ \E k \in 1..Len(iops) : iops[k] = Op("tile", 0, 0)

\* the kinds of the theme objects drawn so far
SceneKinds ==
    {iops[k].kind : k \in {j \in 1..Len(iops) : iops[j].kind \notin {"tile", "shadow"}}}

\* C21: gen_isometric renders exactly one scene: the stemmed flowers for a
\* prompt with a flower/garden keyword; buildings with roofs for a prompt
\* with a city keyword and no flower/garden keyword; the tower with roof
\* tiers, walls and four crystals for a prompt with a fantasy keyword (and
\* none of the others) and for a prompt with no theme keyword at all.
C21_SceneByTheme ==
    ipc = "done" =>
        LET lp == Lower(icfg.prompt)
            flowerKw  == AnyIn(<<"bunga", "flower", "taman", "garden", "flora">>, lp)
            cityKw    == AnyIn(<<"kota", "city", "building", "gedung", "urban">>, lp)
        IN  /\ flowerKw => SceneKinds = {"stem", "petal", "center", "leaf"}
            /\ (cityKw /\ ~flowerKw) => SceneKinds = {"building", "roof"}
            /\ (~cityKw /\ ~flowerKw) => SceneKinds = {"tower", "tier", "wall", "crystal"}

\* C22: records are isolated per user.  A retrieve by user A returns a value
\* A stored, a list by A shows rows A inserted, and a store or delete by A
\* leaves every row whose value another user stored in the table, unchanged.
C22_UserIsolation ==
    [][ /\ resp'.op = "retrieve" =>
              \A r \in resp'.records : r.value.user_id = resp'.user
        /\ resp'.op = "list" =>
              \A r \in resp'.records : r.user_id = resp'.user
        /\ \A r \in mtable : r.value.user_id # actor' => r \in mtable' ]_vars

\* the position of a step in the order C23 gives
StepRank(p) ==
    CASE p = "clamp"    -> 1
      [] p = "detect"   -> 2
      [] p = "palette"  -> 3
      [] p = "dispatch" -> 4
      [] p = "assert"   -> 5
      [] p = "verify"   -> 6
      [] p = "return"   -> 7
      [] p = "done"     -> 8

\* C23: a call goes through clamp, detection, palette, dispatch, RGBA check,
\* alpha verification and result construction in this order, each once (or
\* ends by an exception); the size is written by the clamp only, the style
\* by the detection only and only when auto was requested, the palette is
\* computed once, before the generator, and the generator is called once.
C23_StepOrder ==
    [][ /\ pc' # pc => (pc' = "raised" \/ StepRank(pc') = StepRank(pc) + 1)
        /\ (cfg'.width # cfg.width \/ cfg'.height # cfg.height) => pc = "clamp"
        /\ cfg'.style # cfg.style => (pc = "detect" /\ arg.style = "auto")
        /\ pal' # pal => (pc = "palette" /\ pal = None /\ img = None)
        /\ img' # img => (pc = "dispatch" /\ img = None /\ pal # None)
        /\ va' # va => (pc = "verify" /\ va = None /\ img # None)
        /\ result' # result => (pc = "return" /\ result = None /\ va # None)
        /\ pc' = "done" => (pal # None /\ img # None /\ va # None /\ result' # None) ]_vars

\* a finished call that asked for pixel with a prompt detection would have
\* taken for flower
C23_Witness ==
    /\ pc = "done"
    /\ arg.style = "pixel" /\ cfg.style = "pixel"
    /\ DetectStyle(arg.prompt) = "flower"
    /\ arg.width = 100 /\ cfg.width = 256
    /\ pal # None /\ va # None
    /\ result[1].image.px.gen = "gen_pixel"

\* HSV to RGB, channels truncated to 0..255, for a hue hc in hundredths of a
\* degree, saturation S/10 and value V/10
HsvFine(hc, S, V) ==
    LET i  == (hc \div 6000) % 6
        fm == hc % 6000
        v  == (255 * V) \div 10
        p  == (255 * V * (10 - S)) \div 100
        q  == (255 * V * (60000 - S * fm)) \div 600000
        t  == (255 * V * (60000 - S * (6000 - fm))) \div 600000
    IN  CASE i = 0 -> <<v, t, p>>
          [] i = 1 -> <<q, v, p>>
          [] i = 2 -> <<p, v, t>>
          [] i = 3 -> <<p, q, v>>
          [] i = 4 -> <<t, p, v>>
          [] i = 5 -> <<v, p, q>>

NoPaletteKeyword(prompt) ==
    \A i \in 1..Len(palettes) : ~AnyIn(palettes[i].keywords, Lower(prompt))

\* C24 as claimed: the fallback palette is HSV(hue, 0.7, 0.9),
\* HSV(hue + 0.33 turn, 0.6, 1.0), HSV(hue + 0.66 turn, 0.8, 0.7) with
\* hue = (hash mod 360)/360 turn (0.33 turn is 118.80 degrees).
C24_HueOffsets033 ==
    (ccolors # None /\ NoPaletteKeyword(cprompt)) =>
        LET hc == 100 * (Md5Head(cprompt) % 360)
        IN  ccolors[1] = <<HsvFine(hc, 7, 9),
                           HsvFine((hc + 11880) % 36000, 6, 10),
                           HsvFine((hc + 23760) % 36000, 8, 7)>>

\* C24 as amended: the secondary and tertiary hue offsets are 0.3 and 0.6 of
\* a turn (108 and 216 degrees).
C24_HueOffsets03 ==
    (ccolors # None /\ NoPaletteKeyword(cprompt)) =>
        LET hc == 100 * (Md5Head(cprompt) % 360)
        IN  ccolors[1] = <<HsvFine(hc, 7, 9),
                           HsvFine((hc + 10800) % 36000, 6, 10),
                           HsvFine((hc + 21600) % 36000, 8, 7)>>

\* prompt_to_colors("zebra x"): md5 head 2667942, hue 342 degrees
C24_Witness ==
    /\ cprompt = "zebra x"
    /\ ccolors = Some(<<<<229, 68, 117>>, <<178, 255, 102>>, <<35, 135, 178>>>>)

OpRank(kind) ==
    CASE kind = "aura" -> 0
      [] kind \in {"polygon", "vein"} -> 1
      [] kind = "disc" -> 2
      [] kind = "inner" -> 3
      [] kind = "pollen" -> 4
      [] kind = "gloss" -> 5

\* C25: gen_flower composites back to front: the aura first; then the petal
\* layers from the outermost to the innermost (layer radius strictly
\* decreasing with the layer index), within a layer the petals in
\* increasing slot index, each polygon followed by its own vein; then the
\* stamen disc, the inner disc and the pollen dots; the gloss last.  No
\* petal of an outer layer is drawn after a petal of an inner layer.
C25_BackToFront ==
    LET n == Len(dops)
    IN  /\ n > 0 => dops[1].kind = "aura"
        /\ \A i \in 1..n : \A j \in (i + 1)..n :
              /\ OpRank(dops[i].kind) <= OpRank(dops[j].kind)
              /\ dops[j].kind \notin {"aura", "disc", "inner", "gloss"}
                    \/ dops[i].kind # dops[j].kind
              /\ (dops[i].kind = "pollen" /\ dops[j].kind = "pollen")
                    => dops[i].slot < dops[j].slot
              /\ (OpRank(dops[i].kind) = 1 /\ OpRank(dops[j].kind) = 1) =>
                    /\ dops[i].layer <= dops[j].layer
                    /\ dops[i].r >= dops[j].r
                    /\ dops[i].layer < dops[j].layer => dops[i].r > dops[j].r
                    /\ dops[i].layer = dops[j].layer => dops[i].slot <= dops[j].slot
        /\ \A i \in 1..n : dops[i].kind = "polygon" =>
              (i < n /\ dops[i + 1] = [dops[i] EXCEPT !.kind = "vein"])
        /\ \A i \in 1..n : dops[i].kind = "vein" =>
              (i > 1 /\ dops[i - 1] = [dops[i] EXCEPT !.kind = "polygon"])
        /\ dpc = "done" =>
              /\ dops[n].kind = "gloss"
              /\ {dops[i].kind : i \in 1..n} =
                    {"aura", "polygon", "vein", "disc", "inner", "pollen", "gloss"}
              /\ Cardinality({i \in 1..n : dops[i].kind = "polygon"})
                    = DrawShape[1] * DrawShape[2]
              /\ Cardinality({i \in 1..n : dops[i].kind = "pollen"}) = 8

\* a finished dahlia: 12 petals in each of 5 layers, 60 polygons, the last
\* petal of the innermost layer just before the stamen
C25_Witness ==
    /\ dpc = "done"
    /\ dcfg.prompt = "dahlia"
    /\ Len(dops) = 1 + 120 + 10 + 1
    /\ dops[2] = FlowerOp("polygon", 0, 0, 10000)
    /\ dops[121] = FlowerOp("vein", 4, 11, 4500)
    /\ dops[122].kind = "disc"

\* C26: in gen_isometric the soft shadow is the last thing composited and
\* lies beneath the scene: it comes after the ground platform and all theme
\* objects, and it does not change the colour of any pixel already covered
\* by an opaque (alpha 255) scene object.
C26_ShadowBeneath ==
    ipc = "done" =>
        /\ iops[Len(iops)].kind = "shadow"
        /\ \A k \in 1..(Len(iops) - 1) : iops[k].kind # "shadow"
        /\ (ipx # None /\ ipx[1].scene.a = 255) => ipx[1].out.rgb = ipx[1].scene.rgb

\* C27: the dispatch is total for typed input: every ImageStyle member other
\* than auto is a key of STYLE_MAP and detect_style never returns auto, so
\* for a config whose style is an ImageStyle member the style is a key of
\* STYLE_MAP from the detection step on (the geometric fallback is never
\* taken) and the generator that runs is the one mapped to the resolved
\* style.
C27_DispatchTotal ==
    arg.style \in ImageStyle =>
        LET resolved == IF arg.style = "auto" THEN DetectStyle(arg.prompt) ELSE arg.style
        IN  /\ ImageStyle \ {"auto"} \subseteq DOMAIN STYLE_MAP
            /\ DetectStyle(arg.prompt) # "auto"
            /\ pc \notin {"clamp", "detect"} =>
                  /\ cfg.style = resolved
                  /\ cfg.style \in DOMAIN STYLE_MAP
            /\ img # None =>
                  /\ img[1].px.gen = STYLE_MAP[resolved]
                  /\ resolved # "geometric" => img[1].px.gen # "gen_geometric"

C27_Witness ==
    /\ pc = "done"
    /\ arg.style = "auto"
    /\ cfg.style = "isometric"
    /\ img[1].px.gen = "gen_isometric"

SeedlessStyles == {"gradient", "starburst", "badge", "portrait", "text_art"}
SeededStyles   == {"geometric", "glow", "mandala", "wave", "landscape", "pixel",
                   "flower", "isometric"}

\* C28: for the styles gradient, starburst, badge, portrait and text_art the
\* output does not depend on the seed: two configs equal in prompt, size and
\* style, with different seeds or none, give identical images; only
\* geometric, glow, mandala, wave, landscape, pixel, flower and isometric
\* read the request PRNG.
C28_SeedIndependent ==
    /\ (ref # None /\ ref[1].cfg.style \in SeedlessStyles) =>
          /\ ref[1].raise = NoName
          /\ ref[1].result[1].image.px.rng = None
          /\ last # None =>
                /\ last[1].raise = NoName
                /\ last[1].result[1].image = ref[1].result[1].image
    /\ (ref # None /\ ref[1].raise = NoName /\ ref[1].cfg.style \notin SeedlessStyles) =>
          /\ ref[1].cfg.style \in SeededStyles
          /\ ref[1].result[1].image.px.rng # None

\* a badge drawn with seed 7, then with a seed that no Generator accepts
C28_Witness ==
    /\ ref # None /\ last # None
    /\ ref[1].arg.style = "badge"
    /\ ref[1].arg.seed = Some(7) /\ last[1].arg.seed = Some(-1)
    /\ last[1].result # None
    /\ last[1].result[1].image = ref[1].result[1].image

\* C29: for any interleaving of concurrent POST /store requests by the same
\* user with the same namespace and key, memory_store holds at most one
\* record for that scoped key, so a later retrieve of the key does not fail
\* on several rows.
C29_NoDuplicates ==
    /\ \A r1, r2 \in mtable :
          (r1.key = r2.key /\ r1.user_id = r2.user_id) => r1 = r2
    /\ (resp.op = "retrieve" /\ resp.status = "MultipleResultsFound") =>
          \E r1, r2 \in mtable : r1.key = r2.key /\ r1.user_id # r2.user_id

\* C30: after every request to the generate-image endpoint, successful or
\* failed, an image exists in storage under a key if and only if an
\* ImageRecord with that image_key is committed; a failed request leaves no
\* stored image behind.
C30_StorageMatchesRecords ==
    ereq.pc = "idle" =>
        /\ estorage = images
        /\ (ereq.status = "500" /\ ereq.key # None) => ereq.key[1] \notin estorage

====
